---------------------------- MODULE Spec2Model ----------------------------
(***************************************************************************)
(* A model of fluent-cpp: the pattern normalizer and the AST constructors  *)
(* (src/src/ast.cpp), the entry points parsePattern and                    *)
(* parseMessageReference (src/src/parser.cpp), the per-locale bundle, the  *)
(* loader (src/src/loader.cpp) and the formatter (src/src/ast.cpp).        *)
(*                                                                         *)
(* A std::string is a sequence of one-character strings.  A std::optional  *)
(* is a sequence of length 0 (empty) or 1 (engaged).  An unordered_map is  *)
(* a function whose DOMAIN is the set of its keys.                         *)
(***************************************************************************)
EXTENDS Integers, Sequences, FiniteSets, TLC

(***************************************************************************)
(* Characters                                                              *)
(***************************************************************************)
NL == "\n"
CR == "\r"
SP == " "

Alpha == {"a", "b", "g", "m", "n", "t", "x", "A", "B", "O", "Z"}
Digit == {"0", "1", "2", "3", "4", "5", "6", "7", "8", "9"}

None == << >>
Some(x) == << x >>

\* std::string::npos and std::numeric_limits<size_t>::max(): larger than any
\* index or indent of the model.
SIZE_MAX == 2147483647

(***************************************************************************)
(* String helpers of src/src/ast.cpp                                       *)
(***************************************************************************)
\* std::string::find_first_not_of: the first (1-based) position whose
\* character is not in ws, SIZE_MAX when there is none.
find_first_not_of(str, ws) ==
    LET hits == {i \in 1..Len(str) : str[i] \notin ws}
    IN  IF hits = {} THEN SIZE_MAX
        ELSE CHOOSE i \in hits : \A j \in hits : i <= j

\* std::string::find_last_not_of: the last such position, 0 when there is
\* none (npos + 1 wraps to 0 in stripEnd).
find_last_not_of(str, ws) ==
    LET hits == {i \in 1..Len(str) : str[i] \notin ws}
    IN  IF hits = {} THEN 0
        ELSE CHOOSE i \in hits : \A j \in hits : i >= j

Whitespace == {SP, CR, NL}

\* A stripStart that drops only the first whitespace character.
stripStart_OneChar(str) ==
    IF str # << >> /\ Head(str) \in Whitespace THEN Tail(str) ELSE str

stripStart(str) ==
    LET begin == find_first_not_of(str, Whitespace)
    IN  IF begin = SIZE_MAX THEN << >>
        ELSE SubSeq(str, begin, Len(str))

stripEnd(str) ==
    SubSeq(str, 1, find_last_not_of(str, Whitespace))

\* One pass of the while loop: the first "\r\n" becomes "\n".
RECURSIVE replaceNewlines(_)
replaceNewlines(str) ==
    LET hits == {i \in 1..(Len(str) - 1) : str[i] = CR /\ str[i + 1] = NL}
    IN  IF hits = {} THEN str
        ELSE LET pos == CHOOSE i \in hits : \A j \in hits : i <= j
             IN  replaceNewlines(SubSeq(str, 1, pos - 1) \o SubSeq(str, pos + 1, Len(str)))

\* The lines std::getline(ss, line, '\n') yields: the text between newlines;
\* nothing after a final newline, and nothing at all for the empty string.
RECURSIVE getlines(_)
getlines(str) ==
    IF str = << >> THEN << >>
    ELSE LET hits == {i \in 1..Len(str) : str[i] = NL}
         IN  IF hits = {} THEN << str >>
             ELSE LET pos == CHOOSE i \in hits : \A j \in hits : i <= j
                  IN  << SubSeq(str, 1, pos - 1) >> \o getlines(SubSeq(str, pos + 1, Len(str)))

Min(a, b) == IF a <= b THEN a ELSE b

RECURSIVE MinOver(_, _)
MinOver(seq, start) ==
    IF seq = << >> THEN start ELSE MinOver(Tail(seq), Min(start, Head(seq)))

\* A getMinIndent that does not ignore the lines holding only whitespace
getMinIndent_CountBlank(value) ==
    LET lines == getlines(value)
        startpos(line) == LET p == find_first_not_of(line, Whitespace)
                          IN  IF p = SIZE_MAX THEN Len(line) ELSE p - 1
    IN  MinOver([i \in 1..Len(lines) |-> startpos(lines[i])], SIZE_MAX)

\* Finds minimum indent (on lines with something other than whitespace);
\* startpos is 0-based in the code.
getMinIndent(value) ==
    LET lines == getlines(value)
        startpos(line) == LET p == find_first_not_of(line, Whitespace)
                          IN  IF p = SIZE_MAX THEN SIZE_MAX ELSE p - 1
    IN  MinOver([i \in 1..Len(lines) |-> startpos(lines[i])], SIZE_MAX)

RECURSIVE JoinLines(_)
JoinLines(lines) ==
    IF lines = << >> THEN << >>
    ELSE Head(lines) \o << NL >> \o JoinLines(Tail(lines))

stripIndentLine(line, indent) ==
    LET p == find_first_not_of(line, Whitespace)
    IN  IF p = SIZE_MAX THEN << >>
        ELSE IF p - 1 > 0 THEN SubSeq(line, Min(indent, p - 1) + 1, Len(line))
        ELSE line

\* Removes minimum indent from all lines; every line read is written back
\* followed by '\n'.
stripIndent(value, indent) ==
    LET lines == getlines(value)
    IN  JoinLines([i \in 1..Len(lines) |-> stripIndentLine(lines[i], indent)])


(***************************************************************************)
(* AST (src/include/fluent/ast.hpp).  A PatternElement is a record with a  *)
(* type field; identifiers and values are strings.                         *)
(***************************************************************************)
Text(s) == [type |-> "Text", value |-> s]
StringLiteral(s) == [type |-> "StringLiteral", value |-> s]
NumberLiteral(s) == [type |-> "NumberLiteral", value |-> s]
VariableReference(id) == [type |-> "VariableReference", identifier |-> id]
MessageReference(id, attr) ==
    [type |-> "MessageReference", identifier |-> id, attribute |-> attr]
TermReference(id, attr) ==
    [type |-> "TermReference", identifier |-> id, attribute |-> attr]

\* VariantKey: std::variant<std::string, NumberLiteral>
IdentifierKey(s) == [type |-> "Identifier", value |-> s]
NumberKey(s) == [type |-> "NumberLiteral", value |-> s]
Variant(key, pattern) == [key |-> key, pattern |-> pattern]

\* A SelectExpression whose default variant is pushed after the last
\* variants instead of between the first and the last
SelectExpression_DefaultAtEnd(selector, firstVariants, defaultVariant, lastVariants) ==
    [type |-> "SelectExpression",
     selector |-> << selector >>,
     variants |-> firstVariants \o lastVariants \o << defaultVariant >>,
     defaultVariant |-> Len(firstVariants) + 1]

\* SelectExpression::SelectExpression: the variants before the default, the
\* default, the variants after it; defaultVariant is the (1-based) position
\* of the default.
SelectExpression(selector, firstVariants, defaultVariant, lastVariants) ==
    [type |-> "SelectExpression",
     selector |-> << selector >>,
     variants |-> firstVariants \o << defaultVariant >> \o lastVariants,
     defaultVariant |-> Len(firstVariants) + 1]

IsText(elem) == elem.type = "Text"

\* First loop of addPattern: the minimum of getMinIndent over the text
\* elements.
RECURSIVE patternMinIndent(_, _)
patternMinIndent(newPattern, minIndent) ==
    IF newPattern = << >> THEN minIndent
    ELSE LET elem == Head(newPattern)
             indent == IF IsText(elem) THEN getMinIndent(elem.value) ELSE SIZE_MAX
         IN  patternMinIndent(Tail(newPattern), Min(minIndent, indent))

\* Second loop of addPattern.  st = [out, last, lastString, first].
RECURSIVE addPatternLoop(_, _, _)
addPatternLoop(newPattern, minIndent, st) ==
    IF newPattern = << >> THEN st
    ELSE LET elem == Head(newPattern)
             next ==
               IF IsText(elem)
               THEN [st EXCEPT !.last = IF st.lastString THEN st.last \o elem.value
                                        ELSE elem.value,
                               !.lastString = TRUE]
               ELSE IF st.lastString
               THEN [out |-> st.out \o
                        << Text(IF st.first
                                THEN stripStart(stripIndent(replaceNewlines(st.last), minIndent))
                                ELSE stripIndent(replaceNewlines(st.last), minIndent)) >>
                        \o << elem >>,
                     last |-> << >>,
                     lastString |-> FALSE,
                     first |-> FALSE]
               ELSE [st EXCEPT !.out = st.out \o << elem >>]
         IN  addPatternLoop(Tail(newPattern), minIndent, next)

\* addPattern(newPattern, existingPattern): the elements appended to
\* existingPattern.
addPattern(newPattern, existingPattern) ==
    LET minIndent == patternMinIndent(newPattern, SIZE_MAX)
        st == addPatternLoop(newPattern, minIndent,
                [out |-> existingPattern, last |-> << >>,
                 lastString |-> FALSE, first |-> TRUE])
        stripped == stripIndent(replaceNewlines(st.last), minIndent)
    IN  IF st.lastString
        THEN st.out \o << Text(IF st.first THEN stripStart(stripEnd(stripped))
                               ELSE stripEnd(stripped)) >>
        ELSE st.out

\* Attribute::Attribute
Attribute(id, pattern) == [id |-> id, pattern |-> addPattern(pattern, << >>)]

\* unordered_map::insert of (key, value): an existing key keeps its value.
MapInsert(map, key, value) ==
    IF key \in DOMAIN map THEN map ELSE map @@ (key :> value)

EmptyMap == << >>

RECURSIVE insertAttributes(_, _)
insertAttributes(attributes, map) ==
    IF attributes = << >> THEN map
    ELSE insertAttributes(Tail(attributes),
                          MapInsert(map, Head(attributes).id, Head(attributes)))

\* Message::Message(id, pattern, attributes): the pattern is normalized and
\* the attributes are inserted in order.  The comment is not modelled.
Message(id, pattern, attributes) ==
    [id |-> id,
     pattern |-> addPattern(pattern, << >>),
     attributes |-> insertAttributes(attributes, EmptyMap)]

\* Term: using Message::Message
Term(id, pattern, attributes) == Message(id, pattern, attributes)

\* Message::getAttribute
getAttribute(message, identifier) ==
    IF identifier \in DOMAIN message.attributes
    THEN Some(message.attributes[identifier])
    ELSE None


(***************************************************************************)
(* Parser entry points (src/src/parser.cpp).  A parse state is the input   *)
(* and the (1-based) position of the next character.                       *)
(***************************************************************************)
AlphaUnderscore == Alpha \cup {"_"}
IdentifierTail == Alpha \cup Digit \cup {"_", "-"}
\* text_char: any code point except '{', '}' and newline
IsTextChar(c) == c \notin {"{", "}", NL}

At(input, pos) == IF pos <= Len(input) THEN input[pos] ELSE "EOF"

\* The position after the longest run of characters of set starting at pos.
RECURSIVE SkipWhile(_, _, _)
SkipWhile(input, pos, set) ==
    IF pos <= Len(input) /\ input[pos] \in set
    THEN SkipWhile(input, pos + 1, set) ELSE pos

RECURSIVE SkipText(_, _)
SkipText(input, pos) ==
    IF pos <= Len(input) /\ IsTextChar(input[pos])
    THEN SkipText(input, pos + 1) ELSE pos

ParseFail == [ok |-> FALSE]

\* grammar::Identifier: dsl::identifier(alpha_underscore, alpha_digit_underscore / '-')
grammarIdentifier(input, pos) ==
    IF At(input, pos) \in AlphaUnderscore
    THEN LET stop == SkipWhile(input, pos + 1, IdentifierTail)
         IN  [ok |-> TRUE, value |-> SubSeq(input, pos, stop - 1), pos |-> stop]
    ELSE ParseFail

\* grammar::MessageReference (and, after the '-', grammar::TermReference):
\* Identifier >> opt('.' >> Identifier).  Once the '.' is taken the
\* attribute identifier is required.
grammarReference(input, pos) ==
    LET id == grammarIdentifier(input, pos)
    IN  IF ~id.ok THEN ParseFail
        ELSE IF At(input, id.pos) = "."
        THEN LET attr == grammarIdentifier(input, id.pos + 1)
             IN  IF ~attr.ok THEN ParseFail
                 ELSE [ok |-> TRUE, identifier |-> id.value,
                       attribute |-> Some(attr.value), pos |-> attr.pos]
        ELSE [ok |-> TRUE, identifier |-> id.value, attribute |-> None, pos |-> id.pos]

\* parseMessageReference with the attribute accessor parsed and dropped
parseMessageReference_DropAttribute(input) ==
    LET r == grammarReference(input, 1)
    IN  IF r.ok THEN [ok |-> TRUE, identifier |-> r.identifier, attribute |-> None]
        ELSE ParseFail

\* parseMessageReference: the production is parsed at the start of the input
\* and the rest of the input is not looked at; a failed parse throws.
parseMessageReference(input) ==
    LET r == grammarReference(input, 1)
    IN  IF r.ok THEN [ok |-> TRUE, identifier |-> r.identifier, attribute |-> r.attribute]
        ELSE ParseFail

\* grammar::NumberLiteral: '-'? digits ('.' digits)?, taken only when the
\* peek sees a digit or '-' and a digit.
grammarNumberLiteral(input, pos) ==
    LET start == IF At(input, pos) = "-" THEN pos + 1 ELSE pos
    IN  IF At(input, start) \notin Digit THEN ParseFail
        ELSE LET intEnd == SkipWhile(input, start, Digit)
                 fracEnd == IF At(input, intEnd) = "." /\ At(input, intEnd + 1) \in Digit
                            THEN SkipWhile(input, intEnd + 1, Digit) ELSE intEnd
                 \* "1." takes the '.' branch and then fails on digits
                 bad == At(input, intEnd) = "." /\ At(input, intEnd + 1) \notin Digit
             IN  IF bad THEN ParseFail
                 ELSE [ok |-> TRUE, value |-> SubSeq(input, pos, fracEnd - 1), pos |-> fracEnd]

\* opt_blank: while_(blank_inline | newline)
SkipBlank(input, pos) == SkipWhile(input, pos, {SP, NL})

\* grammar::inline_placeable with grammar::InlineExpression, on inputs that
\* hold no '"' and no "->": '{' blank? InlineExpression blank? '}'.
\* res = [ok, value, pos]; ok = FALSE is a parse error.
RECURSIVE grammarInlinePlaceable(_, _)
grammarInlinePlaceable(input, pos) ==
    LET p == SkipBlank(input, pos + 1)
        c == At(input, p)
        num == grammarNumberLiteral(input, p)
        expr ==
          IF num.ok THEN [ok |-> TRUE, value |-> NumberLiteral(num.value), pos |-> num.pos]
          ELSE IF c \in Digit \/ (c = "-" /\ At(input, p + 1) \in Digit) THEN ParseFail
          ELSE IF c \in AlphaUnderscore
          THEN LET r == grammarReference(input, p)
               IN  IF r.ok THEN [ok |-> TRUE, pos |-> r.pos,
                                 value |-> MessageReference(r.identifier, r.attribute)]
                   ELSE ParseFail
          ELSE IF c = "-"
          THEN LET r == grammarReference(input, p + 1)
               IN  IF r.ok THEN [ok |-> TRUE, pos |-> r.pos,
                                 value |-> TermReference(r.identifier, r.attribute)]
                   ELSE ParseFail
          ELSE IF c = "$"
          THEN LET r == grammarIdentifier(input, p + 1)
               IN  IF r.ok THEN [ok |-> TRUE, pos |-> r.pos,
                                 value |-> VariableReference(r.value)]
                   ELSE ParseFail
          ELSE IF c = "{" THEN grammarInlinePlaceable(input, p)
          ELSE ParseFail  \* dsl::error<expected_expression>
    IN  IF ~expr.ok THEN ParseFail
        ELSE LET q == SkipBlank(input, expr.pos)
             IN  IF At(input, q) = "}"
                 THEN [ok |-> TRUE, value |-> expr.value, pos |-> q + 1]
                 ELSE ParseFail

\* grammar::Pattern, dsl::list(PatternElement), on inputs of one line: the
\* elements are inline_placeable and inline_text; the list ends at the
\* first character that starts neither.
RECURSIVE grammarPatternList(_, _, _)
grammarPatternList(input, pos, acc) ==
    LET c == At(input, pos)
    IN  IF c = "{"
        THEN LET r == grammarInlinePlaceable(input, pos)
             IN  IF r.ok THEN grammarPatternList(input, r.pos, acc \o << r.value >>)
                 ELSE ParseFail
        ELSE IF pos <= Len(input) /\ IsTextChar(c)
        THEN LET stop == SkipText(input, pos)
             IN  grammarPatternList(input, stop,
                                    acc \o << Text(SubSeq(input, pos, stop - 1)) >>)
        ELSE IF acc = << >> THEN ParseFail  \* the list needs one element
        ELSE [ok |-> TRUE, value |-> acc]

\* parsePattern: the raw elements, or a thrown std::runtime_error
parsePattern(input) == grammarPatternList(input, 1, << >>)


(***************************************************************************)
(* Numbers.  A long is the pair (hi, lo) of its 32-bit words, the low word *)
(* signed: its value is hi * 2^32 + lo.  A double is held in hundredths,   *)
(* which is exact for the values of the model (integers and decimals of at *)
(* most two fraction digits).                                              *)
(***************************************************************************)
StringVar(s) == [type |-> "string", str |-> s, hi |-> 0, num |-> 0]
LongVar(hi, lo) == [type |-> "long", str |-> << >>, hi |-> hi, num |-> lo]
DoubleVar(hundredths) == [type |-> "double", str |-> << >>, hi |-> 0, num |-> hundredths]

DigitValue(c) ==
    CASE c = "0" -> 0 [] c = "1" -> 1 [] c = "2" -> 2 [] c = "3" -> 3 [] c = "4" -> 4
      [] c = "5" -> 5 [] c = "6" -> 6 [] c = "7" -> 7 [] c = "8" -> 8 [] c = "9" -> 9

DigitChar(d) == << "0", "1", "2", "3", "4", "5", "6", "7", "8", "9" >>[d + 1]

RECURSIVE DigitsValue(_, _)
DigitsValue(digits, acc) ==
    IF digits = << >> THEN acc
    ELSE DigitsValue(Tail(digits), 10 * acc + DigitValue(Head(digits)))

RECURSIVE NatDigits(_)
NatDigits(n) == IF n < 10 THEN << DigitChar(n) >>
                ELSE NatDigits(n \div 10) \o << DigitChar(n % 10) >>

Abs(n) == IF n < 0 THEN -n ELSE n

\* The parts of a number literal's text: sign, integer digits, fraction digits.
LiteralParts(value) ==
    LET neg == value # << >> /\ Head(value) = "-"
        body == IF neg THEN Tail(value) ELSE value
        dot == {i \in 1..Len(body) : body[i] = "."}
        decimalPos == IF dot = {} THEN 0 ELSE CHOOSE i \in dot : TRUE
    IN  [neg |-> neg,
         int |-> IF decimalPos = 0 THEN body ELSE SubSeq(body, 1, decimalPos - 1),
         frac |-> IF decimalPos = 0 THEN << >> ELSE SubSeq(body, decimalPos + 1, Len(body)),
         hasDot |-> decimalPos # 0]

\* std::stol of a literal's text (the digits before the '.')
stol(value) ==
    LET p == LiteralParts(value)
        n == DigitsValue(p.int, 0)
    IN  IF p.neg THEN -n ELSE n

\* std::stod of a literal's text, in hundredths
stod(value) ==
    LET p == LiteralParts(value)
        f == SubSeq(p.frac \o << "0", "0" >>, 1, 2)
        n == 100 * DigitsValue(p.int, 0) + DigitsValue(f, 0)
    IN  IF p.neg THEN -n ELSE n

\* NumberLiteral::getValue: a double when the text holds a '.', else a long
getValue(literal) ==
    IF LiteralParts(literal.value).hasDot THEN DoubleVar(stod(literal.value))
    ELSE LongVar(0, stol(literal.value))

\* NumberLiteral::operator==(const double &): the two doubles differ by at
\* most |min(a, b)| * epsilon, which for the exact values of the model is
\* equality.
NumberLiteralEqDouble(literal, hundredths) == stod(literal.value) = hundredths

\* NumberLiteral::operator==(const long &): static_cast<double>(other); a
\* long with a non-zero high word is at least 2^32 away from any literal of
\* the model.
NumberLiteralEqLong(literal, hi, lo) ==
    /\ hi = 0
    /\ Abs(lo) <= 10000000
    /\ stod(literal.value) = 100 * lo

\* static_cast<int32_t>(key): the low 32 bits, signed
static_cast_int32(hi, lo) == lo

(***************************************************************************)
(* The locale-number adapter (ICU): the decimal and grouping symbols and   *)
(* the cardinal plural rules of the locales of the model.                  *)
(***************************************************************************)
Locales == {"en", "fr"}

DecimalSeparator(locid) == IF locid = "fr" THEN "," ELSE "."
GroupSeparator(locid) == IF locid = "fr" THEN "NNBSP" ELSE ","

\* Groups of three digits from the right
RECURSIVE Grouped(_, _)
Grouped(digits, sep) ==
    IF Len(digits) <= 3 THEN digits
    ELSE Grouped(SubSeq(digits, 1, Len(digits) - 3), sep) \o << sep >>
         \o SubSeq(digits, Len(digits) - 2, Len(digits))

Pad5(n) == SubSeq(<< "0", "0", "0", "0" >>, 1, 5 - Len(NatDigits(n))) \o NatDigits(n)

\* The decimal digits of hi * 2^32 + lo >= 0, with 2^32 = 42949 * 10^5 + 67296
LongDigits(hi, lo) ==
    IF hi = 0 THEN NatDigits(Abs(lo))
    ELSE LET low == hi * 67296 + (lo % 100000)
             high == hi * 42949 + (lo \div 100000) + (low \div 100000)
         IN  IF high > 0 THEN NatDigits(high) \o Pad5(low % 100000)
             ELSE NatDigits(low % 100000)

LongIsNegative(hi, lo) == hi < 0 \/ (hi = 0 /\ lo < 0)

\* LocalizedNumberFormatter::formatInt(...).toString()
icuFormatInt(locid, hi, lo) ==
    (IF LongIsNegative(hi, lo) THEN << "-" >> ELSE << >>)
    \o Grouped(LongDigits(hi, lo), GroupSeparator(locid))

\* The fraction digits a value in hundredths needs
FractionDigits(hundredths) ==
    LET f == Abs(hundredths) % 100
    IN  IF f = 0 THEN << >>
        ELSE IF f % 10 = 0 THEN << DigitChar(f \div 10) >>
        ELSE << DigitChar(f \div 10), DigitChar(f % 10) >>

RECURSIVE ZeroPad(_, _)
ZeroPad(digits, minFraction) ==
    IF Len(digits) >= minFraction THEN digits ELSE ZeroPad(digits \o << "0" >>, minFraction)

\* LocalizedNumberFormatter::precision(Precision::minFraction(minFraction))
\* .formatDouble(...).toString(); minFraction = 0 is the default precision.
icuFormatDouble(locid, hundredths, minFraction) ==
    LET frac == ZeroPad(FractionDigits(hundredths), minFraction)
    IN  (IF hundredths < 0 THEN << "-" >> ELSE << >>)
        \o Grouped(NatDigits(Abs(hundredths) \div 100), GroupSeparator(locid))
        \o (IF frac = << >> THEN << >> ELSE << DecimalSeparator(locid) >> \o frac)

\* The CLDR cardinal category of a value in hundredths: en has one for the
\* integer 1; fr has one for every value whose integer part is 0 or 1 and
\* many for the non-zero multiples of 1000000.
icuPluralSelect(locid, hundredths) ==
    LET a == Abs(hundredths)
        i == a \div 100
        isInt == a % 100 = 0
    IN  IF locid = "fr"
        THEN (IF i \in {0, 1} THEN << "o", "n", "e" >>
              ELSE IF isInt /\ i % 1000000 = 0 THEN << "m", "a", "n", "y" >>
              ELSE << "o", "t", "h", "e", "r" >>)
        ELSE (IF isInt /\ i = 1 THEN << "o", "n", "e" >>
              ELSE << "o", "t", "h", "e", "r" >>)

\* PluralRules::select(int32_t)
icuPluralSelectInt32(locid, n) ==
    LET i == Abs(n)
    IN  IF locid = "fr"
        THEN (IF i \in {0, 1} THEN << "o", "n", "e" >>
              ELSE IF i % 1000000 = 0 THEN << "m", "a", "n", "y" >>
              ELSE << "o", "t", "h", "e", "r" >>)
        ELSE (IF i = 1 THEN << "o", "n", "e" >> ELSE << "o", "t", "h", "e", "r" >>)

\* std::to_string(long)
to_string_long(hi, lo) ==
    (IF LongIsNegative(hi, lo) THEN << "-" >> ELSE << >>) \o LongDigits(hi, lo)

\* std::to_string(double): "%f", six fraction digits
to_string_double(hundredths) ==
    (IF hundredths < 0 THEN << "-" >> ELSE << >>)
    \o NatDigits(Abs(hundredths) \div 100) \o << "." >>
    \o << DigitChar((Abs(hundredths) % 100) \div 10), DigitChar(Abs(hundredths) % 10) >>
    \o << "0", "0", "0", "0" >>


(***************************************************************************)
(* Bundle: the messages and the terms of one locale, keyed by identifier.  *)
(***************************************************************************)
EmptyBundle == [messages |-> EmptyMap, terms |-> EmptyMap]

\* FluentBundle::addMessage: a later message of the same id overwrites
bundleAddMessage(bundle, message) ==
    [bundle EXCEPT !.messages = (message.id :> message) @@ bundle.messages]

\* FluentBundle::addTerm
bundleAddTerm(bundle, term) ==
    [bundle EXCEPT !.terms = (term.id :> term) @@ bundle.terms]

\* A getMessage that falls back on the terms of the bundle
bundleGetMessage_OrTerm(bundle, identifier) ==
    IF identifier \in DOMAIN bundle.messages
    THEN Some(bundle.messages[identifier])
    ELSE IF identifier \in DOMAIN bundle.terms
    THEN Some(bundle.terms[identifier]) ELSE None

\* FluentBundle::getMessage
bundleGetMessage(bundle, identifier) ==
    IF identifier \in DOMAIN bundle.messages
    THEN Some(bundle.messages[identifier]) ELSE None

\* FluentBundle::getTerm
bundleGetTerm(bundle, identifier) ==
    IF identifier \in DOMAIN bundle.terms
    THEN Some(bundle.terms[identifier]) ELSE None

(***************************************************************************)
(* Loader lookups (src/src/loader.cpp).  bundles maps a locale name to its *)
(* bundle; a fallback chain is a sequence of locales.                      *)
(***************************************************************************)
\* getMessage without the early return: the last locale of the chain whose
\* bundle holds resId wins
RECURSIVE getMessage_LastMatch(_, _, _)
getMessage_LastMatch(bundles, locIdFallback, resId) ==
    IF locIdFallback = << >> THEN None
    ELSE LET locId == Head(locIdFallback)
             message == IF locId \in DOMAIN bundles
                        THEN bundleGetMessage(bundles[locId], resId) ELSE None
             later == getMessage_LastMatch(bundles, Tail(locIdFallback), resId)
         IN  IF later # None THEN later
             ELSE IF message # None
             THEN Some([first |-> message[1], second |-> locId])
             ELSE None

\* getMessage that, the chain exhausted, takes the message from any bundle
\* of the loader
getMessage_AnyBundle(bundles, locIdFallback, resId) ==
    LET inChain == {i \in 1..Len(locIdFallback) :
                      /\ locIdFallback[i] \in DOMAIN bundles
                      /\ resId \in DOMAIN bundles[locIdFallback[i]].messages}
        anywhere == {l \in DOMAIN bundles : resId \in DOMAIN bundles[l].messages}
    IN  IF inChain # {}
        THEN LET i == CHOOSE i \in inChain : \A j \in inChain : i <= j
             IN  Some([first |-> bundles[locIdFallback[i]].messages[resId],
                       second |-> locIdFallback[i]])
        ELSE IF anywhere # {}
        THEN LET l == CHOOSE l \in anywhere : TRUE
             IN  Some([first |-> bundles[l].messages[resId], second |-> l])
        ELSE None

\* FluentLoader::getMessage: the first locale of the chain whose bundle
\* holds resId, with that locale.
RECURSIVE getMessage(_, _, _)
getMessage(bundles, locIdFallback, resId) ==
    IF locIdFallback = << >> THEN None
    ELSE LET locId == Head(locIdFallback)
             message == IF locId \in DOMAIN bundles
                        THEN bundleGetMessage(bundles[locId], resId) ELSE None
         IN  IF message # None
             THEN Some([first |-> message[1], second |-> locId])
             ELSE getMessage(bundles, Tail(locIdFallback), resId)

\* FluentLoader::getTerm
RECURSIVE getTerm(_, _, _)
getTerm(bundles, locIdFallback, resId) ==
    IF locIdFallback = << >> THEN None
    ELSE LET locId == Head(locIdFallback)
             term == IF locId \in DOMAIN bundles
                     THEN bundleGetTerm(bundles[locId], resId) ELSE None
         IN  IF term # None THEN term
             ELSE getTerm(bundles, Tail(locIdFallback), resId)

\* The messageLookup closure of formatMessage
messageLookup(bundles, locIdFallback, identifier) ==
    LET messagePair == getMessage(bundles, locIdFallback, identifier)
    IN  IF messagePair # None THEN Some(messagePair[1].first) ELSE None

\* The termLookup closure of formatMessage
termLookup(bundles, locIdFallback, identifier) ==
    getTerm(bundles, locIdFallback, identifier)

(***************************************************************************)
(* Formatter (src/src/ast.cpp).  A formatting context ctx holds what the   *)
(* recursion passes along unchanged: the loader's bundles and the chain    *)
(* (the two lookup closures), locid, formatter (the locale the function-   *)
(* static formatter of NumberLiteral::format holds during this call) and   *)
(* status (whether the ICU formatter reports success).  An outcome is      *)
(* [kind, str, lit]: kind "ok" with the string; "throw" for an exception   *)
(* leaving the call; "ub" for a read of an empty optional; "overflow" for  *)
(* a recursion deeper than MaxDepth.  lit tells whether                    *)
(* NumberLiteral::format ran, which initializes its static formatter.      *)
(***************************************************************************)
MaxDepth == 4

Ok(str, lit) == [kind |-> "ok", str |-> str, lit |-> lit]
Abort(kind, lit) == [kind |-> kind, str |-> << >>, lit |-> lit]

\* NumberLiteral::format: the formatter is a function static, initialized
\* with the locid of the first call ever made; the decimal branch returns
\* without looking at status.
NumberLiteralFormat(ctx, literal) ==
    LET parts == LiteralParts(literal.value)
    IN  IF ~parts.hasDot
        THEN (IF ctx.status = "ok"
              THEN icuFormatInt(ctx.formatter, 0, stol(literal.value))
              ELSE literal.value)
        ELSE (IF ctx.status = "ok"
              THEN icuFormatDouble(ctx.formatter, stod(literal.value), Len(parts.frac))
              ELSE << >>)

\* formatVariable
formatVariable(ctx, variable) ==
    IF variable.type = "string" THEN variable.str
    ELSE IF variable.type = "long"
    THEN (IF ctx.status = "ok" THEN icuFormatInt(ctx.locid, variable.hi, variable.num)
          ELSE to_string_long(variable.hi, variable.num))
    ELSE (IF ctx.status = "ok" THEN icuFormatDouble(ctx.locid, variable.num, 0)
          ELSE to_string_double(variable.num))

\* std::find_if over the variants: the first position whose key is among the
\* matching ones, 0 for end()
FindIf(variants, matching) ==
    LET hits == {i \in 1..Len(variants) : variants[i].key \in matching}
    IN  IF hits = {} THEN 0 ELSE CHOOSE i \in hits : \A j \in hits : i <= j

\* The keys of the variants for which a predicate of find_if holds
KeysOf(variants) == {variants[i].key : i \in 1..Len(variants)}

\* SelectExpression::find(locid, std::string key)
findString(locid, expr, key) ==
    LET Matches(k) == k.type = "Identifier" /\ k.value = key
        it == FindIf(expr.variants, {k \in KeysOf(expr.variants) : Matches(k)})
    IN  IF it # 0 THEN expr.variants[it].pattern
        ELSE expr.variants[expr.defaultVariant].pattern

\* SelectExpression::find(locid, double key)
findDouble(locid, expr, key) ==
    LET Matches(k) == IF k.type = "Identifier"
                      THEN icuPluralSelect(locid, key) = k.value
                      ELSE NumberLiteralEqDouble(k, key)
        it == FindIf(expr.variants, {k \in KeysOf(expr.variants) : Matches(k)})
    IN  IF it # 0 THEN expr.variants[it].pattern
        ELSE expr.variants[expr.defaultVariant].pattern

\* find(locid, long key) in two passes: the number-literal keys first, the
\* identifier keys only when none of them is equal
findLong_NumberFirst(locid, expr, hi, lo) ==
    LET IsNumber(k) == k.type = "NumberLiteral" /\ NumberLiteralEqLong(k, hi, lo)
        IsPlural(k) == k.type = "Identifier" /\
                       icuPluralSelectInt32(locid, static_cast_int32(hi, lo)) = k.value
        num == FindIf(expr.variants, {k \in KeysOf(expr.variants) : IsNumber(k)})
        it == IF num # 0 THEN num ELSE FindIf(expr.variants, {k \in KeysOf(expr.variants) : IsPlural(k)})
    IN  IF it # 0 THEN expr.variants[it].pattern
        ELSE expr.variants[expr.defaultVariant].pattern

\* SelectExpression::find(locid, long key)
findLong(locid, expr, hi, lo) ==
    LET Matches(k) == IF k.type = "Identifier"
                      THEN icuPluralSelectInt32(locid, static_cast_int32(hi, lo)) = k.value
                      ELSE NumberLiteralEqLong(k, hi, lo)
        it == FindIf(expr.variants, {k \in KeysOf(expr.variants) : Matches(k)})
    IN  IF it # 0 THEN expr.variants[it].pattern
        ELSE expr.variants[expr.defaultVariant].pattern

\* The std::visit over a std::variant<std::string, long, double>
findVariable(locid, expr, value) ==
    IF value.type = "string" THEN findString(locid, expr, value.str)
    ELSE IF value.type = "long" THEN findLong(locid, expr, value.hi, value.num)
    ELSE findDouble(locid, expr, value.num)

\* getSelectExpressionPattern: [kind, pattern]; args.at throws when the
\* selector variable is absent; a message or term reference as selector
\* gives the empty pattern.
getSelectExpressionPattern(locid, expr, args) ==
    LET selector == expr.selector[1]
    IN  IF selector.type = "StringLiteral"
        THEN [kind |-> "ok", pattern |-> findString(locid, expr, selector.value)]
        ELSE IF selector.type = "NumberLiteral"
        THEN [kind |-> "ok", pattern |-> findVariable(locid, expr, getValue(selector))]
        ELSE IF selector.type = "VariableReference"
        THEN (IF selector.identifier \in DOMAIN args
              THEN [kind |-> "ok",
                    pattern |-> findVariable(locid, expr, args[selector.identifier])]
              ELSE [kind |-> "throw", pattern |-> << >>])
        ELSE [kind |-> "ok", pattern |-> << >>]

UnknownMessage ==
    << "u", "n", "k", "n", "o", "w", "n", SP, "m", "e", "s", "s", "a", "g", "e", SP >>

\* operator<<(MessageReference) and operator<<(TermReference)
PrintReference(ref) ==
    IF ref.type = "TermReference"
    THEN << "{", SP, "-" >> \o ref.identifier \o << SP, "}" >>
    ELSE << "{", SP >> \o ref.identifier \o << SP, "}" >>

NoArgs == EmptyMap

\* formatPattern, with Attribute::format and Message::format, which only
\* call it.  depth is the number of nested calls still allowed.
RECURSIVE formatPattern(_, _, _, _)
RECURSIVE formatElement(_, _, _, _)

\* The loop of formatPattern over the outcomes of the elements: the strings
\* are appended in order up to the first element that does not return, and
\* the elements after that one are never formatted.
RECURSIVE appendValues(_, _)
appendValues(results, n) ==
    IF n = 0 THEN << >> ELSE appendValues(results, n - 1) \o results[n].str

formatLoop(results) ==
    LET bad == {i \in 1..Len(results) : results[i].kind # "ok"}
        stop == IF bad = {} THEN Len(results)
                ELSE CHOOSE i \in bad : \A j \in bad : i <= j
        lit == \E i \in 1..stop : results[i].lit
    IN  IF bad = {} THEN Ok(appendValues(results, Len(results)), lit)
        ELSE Abort(results[stop].kind, lit)

\* A formatPattern that returns the empty string in place of a pattern
\* nested too deep
formatPattern_CutOff(ctx, pattern, args, depth) ==
    IF depth = 0 THEN Ok(<< >>, FALSE)
    ELSE formatLoop([i \in 1..Len(pattern) |->
                        formatElement(ctx, pattern[i], args, depth)])

formatPattern(ctx, pattern, args, depth) ==
    IF depth = 0 THEN Abort("overflow", FALSE)
    ELSE formatLoop([i \in 1..Len(pattern) |->
                        formatElement(ctx, pattern[i], args, depth)])

\* A reference to a message or a term, once looked up: entity is the
\* optional the lookup returned and refArgs the arguments passed on.
\* A formatReference that gives up on a reference it cannot resolve
formatReference_AbortUnknown(ctx, arg, entity, refArgs, depth) ==
    IF entity # None
    THEN (IF arg.attribute # None
          THEN LET attribute == getAttribute(entity[1], arg.attribute[1])
               IN  IF attribute = None THEN Abort("ub", FALSE)
                   ELSE formatPattern(ctx, attribute[1].pattern, refArgs, depth - 1)
          ELSE formatPattern(ctx, entity[1].pattern, refArgs, depth - 1))
    ELSE Abort("throw", FALSE)

formatReference(ctx, arg, entity, refArgs, depth) ==
    IF entity # None
    THEN (IF arg.attribute # None
          THEN LET attribute == getAttribute(entity[1], arg.attribute[1])
               IN  IF attribute = None THEN Abort("ub", FALSE)
                   ELSE formatPattern(ctx, attribute[1].pattern, refArgs, depth - 1)
          ELSE formatPattern(ctx, entity[1].pattern, refArgs, depth - 1))
    ELSE Ok(UnknownMessage \o PrintReference(arg), FALSE)

\* A formatElement that renders a variable missing from args as some
\* argument that args does hold
formatElement_AnyArgument(ctx, arg, args, depth) ==
    IF arg.type = "Text" THEN Ok(arg.value, FALSE)
    ELSE IF arg.type = "StringLiteral" THEN Ok(arg.value, FALSE)
    ELSE IF arg.type = "NumberLiteral" THEN Ok(NumberLiteralFormat(ctx, arg), TRUE)
    ELSE IF arg.type = "MessageReference"
    THEN formatReference(ctx, arg,
            messageLookup(ctx.bundles, ctx.chain, arg.identifier), args, depth)
    ELSE IF arg.type = "TermReference"
    THEN formatReference(ctx, arg,
            termLookup(ctx.bundles, ctx.chain, arg.identifier), NoArgs, depth)
    ELSE IF arg.type = "SelectExpression"
    THEN LET sel == getSelectExpressionPattern(ctx.locid, arg, args)
         IN  IF sel.kind # "ok" THEN Abort(sel.kind, FALSE)
             ELSE formatPattern(ctx, sel.pattern, args, depth - 1)
    ELSE \* VariableReference
         IF arg.identifier \in DOMAIN args
         THEN Ok(formatVariable(ctx, args[arg.identifier]), FALSE)
         ELSE IF DOMAIN args # {}
         THEN Ok(formatVariable(ctx, args[CHOOSE v \in DOMAIN args : TRUE]), FALSE)
         ELSE Abort("throw", FALSE)

\* A formatElement that hands the caller's arguments on to a term
formatElement_TermSeesArgs(ctx, arg, args, depth) ==
    IF arg.type = "Text" THEN Ok(arg.value, FALSE)
    ELSE IF arg.type = "StringLiteral" THEN Ok(arg.value, FALSE)
    ELSE IF arg.type = "NumberLiteral" THEN Ok(NumberLiteralFormat(ctx, arg), TRUE)
    ELSE IF arg.type = "MessageReference"
    THEN formatReference(ctx, arg,
            messageLookup(ctx.bundles, ctx.chain, arg.identifier), args, depth)
    ELSE IF arg.type = "TermReference"
    THEN formatReference(ctx, arg,
            termLookup(ctx.bundles, ctx.chain, arg.identifier), args, depth)
    ELSE IF arg.type = "SelectExpression"
    THEN LET sel == getSelectExpressionPattern(ctx.locid, arg, args)
         IN  IF sel.kind # "ok" THEN Abort(sel.kind, FALSE)
             ELSE formatPattern(ctx, sel.pattern, args, depth - 1)
    ELSE \* VariableReference
         IF arg.identifier \in DOMAIN args
         THEN Ok(formatVariable(ctx, args[arg.identifier]), FALSE)
         ELSE Abort("throw", FALSE)

\* A formatElement that renders a variable missing from args as nothing
formatElement_EmptyPlaceholder(ctx, arg, args, depth) ==
    IF arg.type = "Text" THEN Ok(arg.value, FALSE)
    ELSE IF arg.type = "StringLiteral" THEN Ok(arg.value, FALSE)
    ELSE IF arg.type = "NumberLiteral" THEN Ok(NumberLiteralFormat(ctx, arg), TRUE)
    ELSE IF arg.type = "MessageReference"
    THEN formatReference(ctx, arg,
            messageLookup(ctx.bundles, ctx.chain, arg.identifier), args, depth)
    ELSE IF arg.type = "TermReference"
    THEN formatReference(ctx, arg,
            termLookup(ctx.bundles, ctx.chain, arg.identifier), NoArgs, depth)
    ELSE IF arg.type = "SelectExpression"
    THEN LET sel == getSelectExpressionPattern(ctx.locid, arg, args)
         IN  IF sel.kind # "ok" THEN Abort(sel.kind, FALSE)
             ELSE formatPattern(ctx, sel.pattern, args, depth - 1)
    ELSE \* VariableReference
         IF arg.identifier \in DOMAIN args
         THEN Ok(formatVariable(ctx, args[arg.identifier]), FALSE)
         ELSE Ok(<< >>, FALSE)

formatElement(ctx, arg, args, depth) ==
    IF arg.type = "Text" THEN Ok(arg.value, FALSE)
    ELSE IF arg.type = "StringLiteral" THEN Ok(arg.value, FALSE)
    ELSE IF arg.type = "NumberLiteral" THEN Ok(NumberLiteralFormat(ctx, arg), TRUE)
    ELSE IF arg.type = "MessageReference"
    THEN formatReference(ctx, arg,
            messageLookup(ctx.bundles, ctx.chain, arg.identifier), args, depth)
    ELSE IF arg.type = "TermReference"
    THEN formatReference(ctx, arg,
            termLookup(ctx.bundles, ctx.chain, arg.identifier), NoArgs, depth)
    ELSE IF arg.type = "SelectExpression"
    THEN LET sel == getSelectExpressionPattern(ctx.locid, arg, args)
         IN  IF sel.kind # "ok" THEN Abort(sel.kind, FALSE)
             ELSE formatPattern(ctx, sel.pattern, args, depth - 1)
    ELSE \* VariableReference
         IF arg.identifier \in DOMAIN args
         THEN Ok(formatVariable(ctx, args[arg.identifier]), FALSE)
         ELSE Abort("throw", FALSE)


(***************************************************************************)
(* Loader operations (src/src/loader.cpp)                                  *)
(***************************************************************************)
MessageEntry(message) == [type |-> "Message", value |-> message]
TermEntry(term) == [type |-> "Term", value |-> term]
CommentEntry == [type |-> "AnyComment", value |-> << >>]
JunkEntry == [type |-> "Junk", value |-> << >>]

\* The loop of addResource over the entries: messages and terms go to the
\* bundle, comments and junk are dropped.
RECURSIVE bundleOfEntries(_, _)
bundleOfEntries(entries, bundle) ==
    IF entries = << >> THEN bundle
    ELSE LET entry == Head(entries)
             next == IF entry.type = "Message" THEN bundleAddMessage(bundle, entry.value)
                     ELSE IF entry.type = "Term" THEN bundleAddTerm(bundle, entry.value)
                     ELSE bundle
         IN  bundleOfEntries(Tail(entries), next)

\* FluentLoader::addResource(locId, entries): a fresh bundle is filled and
\* handed to unordered_map::insert.
addResource(bundles, locId, entries) ==
    MapInsert(bundles, locId, bundleOfEntries(entries, EmptyBundle))

\* addMessage that stores a fresh bundle holding the message, whether or not
\* the locale has one
addMessage_ReplaceBundle(bundles, locId, identifier, messageContents) ==
    LET pattern == parsePattern(messageContents)
    IN  IF ~pattern.ok THEN [threw |-> TRUE, bundles |-> bundles]
        ELSE LET message == Message(identifier, pattern.value, << >>)
             IN  [threw |-> FALSE,
                  bundles |-> (locId :> bundleAddMessage(EmptyBundle, message)) @@ bundles]

\* addMessage that makes sure of the locale's bundle before it parses
addMessage_BundleFirst(bundles, locId, identifier, messageContents) ==
    LET pattern == parsePattern(messageContents)
        ready == MapInsert(bundles, locId, EmptyBundle)
    IN  IF ~pattern.ok THEN [threw |-> TRUE, bundles |-> ready]
        ELSE [threw |-> FALSE,
              bundles |-> [ready EXCEPT ![locId] = bundleAddMessage(@,
                              Message(identifier, pattern.value, << >>))]]

\* FluentLoader::addMessage: [threw, bundles].  parsePattern throws before
\* the map is touched; addMessageParsed is the function from the parsed
\* pattern on.
addMessageParsed(bundles, locId, identifier, pattern) ==
    IF ~pattern.ok THEN [threw |-> TRUE, bundles |-> bundles]
    ELSE LET message == Message(identifier, pattern.value, << >>)
         IN  [threw |-> FALSE,
              bundles |->
                IF locId \in DOMAIN bundles
                THEN [bundles EXCEPT ![locId] = bundleAddMessage(@, message)]
                ELSE MapInsert(bundles, locId, bundleAddMessage(EmptyBundle, message))]

addMessage(bundles, locId, identifier, messageContents) ==
    addMessageParsed(bundles, locId, identifier, parsePattern(messageContents))

\* A directory entry the recursive iterator yields: whether it is a regular
\* file, the stem of its parent directory, its own stem and extension, and
\* the entries parseFile reads from it.
DirEntry(regular, parent, stem, extension, entries) ==
    [regular |-> regular, parent |-> parent, stem |-> stem,
     extension |-> extension, entries |-> entries]

\* FluentLoader::addDirectory(dir): the directory entries in iteration order
RECURSIVE addDirectory(_, _)
addDirectory(bundles, dir) ==
    IF dir = << >> THEN bundles
    ELSE LET dirEntry == Head(dir)
             next == IF dirEntry.regular /\ dirEntry.extension = ".ftl"
                     THEN addResource(bundles, dirEntry.parent, dirEntry.entries)
                     ELSE bundles
         IN  addDirectory(next, Tail(dir))

\* FluentLoader::formatMessage.  formatter is the optional locale of the
\* static formatter of NumberLiteral::format before the call.  The outcome
\* has kind "absent" for the empty optional and "throw" when
\* parseMessageReference or the formatting throws; locale is the locale the
\* message was found in.
\* A formatMessage that looks for the attribute in the later locales of the
\* chain when the message it found has none of that name
RECURSIVE formatMessage_NextLocale(_, _, _, _, _, _)
formatMessage_NextLocale(bundles, locIdFallback, resId, args, formatter, status) ==
    LET messageRef == parseMessageReference(resId)
        messagePair == getMessage(bundles, locIdFallback, messageRef.identifier)
        message == messagePair[1].first
        locid == messagePair[1].second
        ctx == [bundles |-> bundles, chain |-> locIdFallback, locid |-> locid,
                formatter |-> IF formatter = None THEN locid ELSE formatter[1],
                status |-> status]
        attr == getAttribute(message, messageRef.attribute[1])
        absent == [kind |-> "absent", str |-> << >>, lit |-> FALSE, locale |-> None]
        found(r) == [kind |-> r.kind, str |-> r.str, lit |-> r.lit, locale |-> Some(locid)]
    IN  IF ~messageRef.ok
        THEN [kind |-> "throw", str |-> << >>, lit |-> FALSE, locale |-> None]
        ELSE IF messagePair = None THEN absent
        ELSE IF messageRef.attribute # None
        THEN (IF attr # None
              THEN found(formatPattern(ctx, attr[1].pattern, args, MaxDepth))
              ELSE formatMessage_NextLocale(bundles, Tail(locIdFallback), resId, args,
                                            formatter, status))
        ELSE found(formatPattern(ctx, message.pattern, args, MaxDepth))

formatMessage(bundles, locIdFallback, resId, args, formatter, status) ==
    LET messageRef == parseMessageReference(resId)
        messagePair == getMessage(bundles, locIdFallback, messageRef.identifier)
        message == messagePair[1].first
        locid == messagePair[1].second
        ctx == [bundles |-> bundles, chain |-> locIdFallback, locid |-> locid,
                formatter |-> IF formatter = None THEN locid ELSE formatter[1],
                status |-> status]
        attr == getAttribute(message, messageRef.attribute[1])
        absent == [kind |-> "absent", str |-> << >>, lit |-> FALSE, locale |-> None]
        found(r) == [kind |-> r.kind, str |-> r.str, lit |-> r.lit, locale |-> Some(locid)]
    IN  IF ~messageRef.ok
        THEN [kind |-> "throw", str |-> << >>, lit |-> FALSE, locale |-> None]
        ELSE IF messagePair = None THEN absent
        ELSE IF messageRef.attribute # None
        THEN (IF attr # None
              THEN found(formatPattern(ctx, attr[1].pattern, args, MaxDepth))
              ELSE absent)
        ELSE found(formatPattern(ctx, message.pattern, args, MaxDepth))


(***************************************************************************)
(* The resources, directories, texts and arguments the operations draw     *)
(* their inputs from.                                                      *)
(***************************************************************************)
\* ResourceA:
\*   a = A{ 1.5 }
\*   m = { $n ->
\*       [one] O
\*       [1] I
\*      *[other] { $n }
\*   }
\*       .t = T{ 1000 }
\*   -b = B
ResourceA ==
    << MessageEntry(Message(<< "a" >>,
            << Text(<< "A" >>), NumberLiteral(<< "1", ".", "5" >>) >>, << >>)),
       CommentEntry,
       MessageEntry(Message(<< "m" >>,
            << SelectExpression(VariableReference(<< "n" >>),
                  << Variant(IdentifierKey(<< "o", "n", "e" >>), << Text(<< "O" >>) >>),
                     Variant(NumberKey(<< "1" >>), << Text(<< "I" >>) >>) >>,
                  Variant(IdentifierKey(<< "o", "t", "h", "e", "r" >>),
                          << VariableReference(<< "n" >>) >>),
                  << >>) >>,
            << Attribute(<< "t" >>,
                  << Text(<< "T" >>), NumberLiteral(<< "1", "0", "0", "0" >>) >>) >>)),
       TermEntry(Term(<< "b" >>, << Text(<< "B" >>) >>, << >>)) >>

\* ResourceB:
\*   a = Z
\*   b = { a }{ -b }
\*   g = { a ->
\*       [a] A
\*      *[b] B
\*   }
\*   -g = G
\*   m = M
ResourceB ==
    << MessageEntry(Message(<< "a" >>, << Text(<< "Z" >>) >>, << >>)),
       JunkEntry,
       MessageEntry(Message(<< "b" >>,
            << MessageReference(<< "a" >>, None),
               TermReference(<< "b" >>, None) >>, << >>)),
       MessageEntry(Message(<< "g" >>,
            << SelectExpression(MessageReference(<< "a" >>, None),
                  << Variant(IdentifierKey(<< "a" >>), << Text(<< "A" >>) >>) >>,
                  Variant(IdentifierKey(<< "b" >>), << Text(<< "B" >>) >>),
                  << >>) >>, << >>)),
       TermEntry(Term(<< "g" >>, << Text(<< "G" >>) >>, << >>)),
       MessageEntry(Message(<< "m" >>, << Text(<< "M" >>) >>, << >>)) >>

Resources == {ResourceA, ResourceB}

\* The files of a directory tree root/<locale>/<stem>.<extension>
FileMainEn == DirEntry(TRUE, "en", "main", ".ftl", ResourceA)
FileExtraEn == DirEntry(TRUE, "en", "extra", ".ftl", ResourceB)
FileMainFr == DirEntry(TRUE, "fr", "main", ".ftl", ResourceB)
FileNotesFr == DirEntry(TRUE, "fr", "notes", ".txt", ResourceA)
DirectoryEn == DirEntry(FALSE, "root", "en", "", << >>)

Directories ==
    { {DirectoryEn, FileMainEn, FileExtraEn},
      {FileMainEn, FileMainFr, FileNotesFr} }

\* The iteration orders of a directory: recursive_directory_iterator fixes
\* no order among the entries.
Orders(files) ==
    {order \in [1..Cardinality(files) -> files] :
        \A i, j \in 1..Cardinality(files) : i # j => order[i] # order[j]}

\* addMessage inputs
MessageIds == { << "a" >>, << "x" >> }
PatternTexts ==
    { << "x", "{", SP, "$", "n", SP, "}" >>,   \* x{ $n }
      << "{" >>,                               \* an unclosed placeable
      << >> }                                  \* no element at all

\* formatMessage inputs
Chains == { << >>, << "en" >>, << "fr" >>, << "en", "fr" >>, << "fr", "en" >> }
ResIds ==
    { << "a" >>, << "b" >>, << "g" >>, << "m" >>, << "x" >>,
      << "m", ".", "t" >>, << "m", ".", "x" >>,
      << "1" >>, << "-", "b" >> }
ArgSets ==
    { NoArgs,
      << "n" >> :> LongVar(0, 1),
      << "n" >> :> LongVar(0, 1000),
      << "n" >> :> DoubleVar(150),
      << "n" >> :> StringVar(<< "a" >>) }
Statuses == {"ok", "fail"}

\* Select expressions: every list of at most MaxVariants distinct keys, each
\* position in turn the default; the pattern of the variant at position i
\* is the digit i.
MaxVariants == 3
VariantKeys ==
    { IdentifierKey(<< "o", "n", "e" >>), IdentifierKey(<< "o", "t", "h", "e", "r" >>),
      IdentifierKey(<< "a" >>), NumberKey(<< "1" >>), NumberKey(<< "1", ".", "5" >>) }
KeyLists ==
    UNION { {keys \in [1..len -> VariantKeys] :
                \A i, j \in 1..len : i # j => keys[i] # keys[j]} : len \in 2..MaxVariants }
VariantsOf(keys) ==
    [i \in 1..Len(keys) |-> Variant(keys[i], << Text(<< DigitChar(i) >>) >>)]
Selectors ==
    { VariableReference(<< "n" >>), StringLiteral(<< "a" >>),
      NumberLiteral(<< "1" >>), NumberLiteral(<< "1", ".", "5" >>),
      NumberLiteral(<< "2" >>),
      MessageReference(<< "a" >>, None), TermReference(<< "b" >>, None) }

(***************************************************************************)
(* The state machine: a loader, the function-static formatter of           *)
(* NumberLiteral::format, and the call in progress.                        *)
(***************************************************************************)
VARIABLES
    bundles,      \* FluentLoader::bundles
    formatter,    \* the static formatter's locale: None until first use
    last,         \* the call that has just run, with its inputs and result
    STATIC_LOADER \* the process-wide loader: None while nullptr

vars == << bundles, formatter, last, STATIC_LOADER >>

Idle == [op |-> "idle"]

Init ==
    /\ bundles = EmptyMap
    /\ formatter = None
    /\ last = Idle
    /\ STATIC_LOADER = None

\* addResource(locId, entries)
AddResource(locId, entries) ==
    /\ last = Idle
    /\ bundles' = addResource(bundles, locId, entries)
    /\ last' = [op |-> "addResource", locId |-> locId, entries |-> entries,
                before |-> bundles]
    /\ UNCHANGED << formatter, STATIC_LOADER >>

\* addMessage(locId, identifier, messageContents)
AddMessage(locId, identifier, messageContents) ==
    /\ last = Idle
    /\ \E r \in {addMessage(bundles, locId, identifier, messageContents)} :
          /\ bundles' = r.bundles
          /\ last' = [op |-> "addMessage", locId |-> locId, identifier |-> identifier,
                      messageContents |-> messageContents, threw |-> r.threw,
                      before |-> bundles]
    /\ UNCHANGED << formatter, STATIC_LOADER >>

\* addDirectory(dir), the entries of dir coming in the order dir gives
AddDirectory(dir) ==
    /\ last = Idle
    /\ bundles' = addDirectory(bundles, dir)
    /\ last' = [op |-> "addDirectory", dir |-> dir, before |-> bundles]
    /\ UNCHANGED << formatter, STATIC_LOADER >>

\* formatMessage(locIdFallback, resId, args); a read of an empty optional is
\* undefined behaviour: the call may crash or go on with whatever the
\* storage holds.
FormatMessage(locIdFallback, resId, args, status) ==
    /\ last = Idle
    /\ \E r \in {formatMessage(bundles, locIdFallback, resId, args, formatter, status)} :
          /\ \E result \in (IF r.kind = "ub"
                            THEN {[r EXCEPT !.kind = "crash"],
                                  [r EXCEPT !.kind = "ok"],
                                  [r EXCEPT !.kind = "ok", !.str = << "?" >>]}
                            ELSE {r}) :
                last' = [op |-> "formatMessage", locIdFallback |-> locIdFallback,
                         resId |-> resId, args |-> args, status |-> status,
                         formatter |-> formatter, result |-> result]
          /\ formatter' = IF r.lit /\ formatter = None THEN r.locale ELSE formatter
    /\ UNCHANGED << bundles, STATIC_LOADER >>

\* The SelectExpression branch of formatPattern on one select expression,
\* called with locid and args, the lookups going through the chain << locid >>
Select(locid, selector, keys, default, args) ==
    LET variants == VariantsOf(keys)
        expr == SelectExpression(selector, SubSeq(variants, 1, default - 1),
                                 variants[default],
                                 SubSeq(variants, default + 1, Len(variants)))
        ctx == [bundles |-> bundles, chain |-> << locid >>, locid |-> locid,
                formatter |-> locid, status |-> "ok"]
    IN  /\ last = Idle
        /\ selector.type = "VariableReference" \/ args = NoArgs
        /\ last' = [op |-> "select", locid |-> locid, expr |-> expr, args |-> args,
                    firstVariants |-> SubSeq(variants, 1, default - 1),
                    marked |-> variants[default],
                    lastVariants |-> SubSeq(variants, default + 1, Len(variants)),
                    result |-> formatElement(ctx, expr, args, MaxDepth)]
        /\ UNCHANGED << bundles, formatter, STATIC_LOADER >>

\* The call returns to its caller
Return ==
    /\ last # Idle
    /\ last' = Idle
    /\ UNCHANGED << bundles, formatter, STATIC_LOADER >>

Next ==
    \/ \E locId \in Locales, entries \in Resources : AddResource(locId, entries)
    \/ \E locId \in Locales, identifier \in MessageIds, text \in PatternTexts :
          AddMessage(locId, identifier, text)
    \/ \E files \in Directories : \E dir \in Orders(files) : AddDirectory(dir)
    \/ \E chain \in Chains, resId \in ResIds, args \in ArgSets, status \in Statuses :
          FormatMessage(chain, resId, args, status)
    \/ Return

Spec == Init /\ [][Next]_vars

(***************************************************************************)
(* The evaluation of select expressions, a function of the expression, the *)
(* locale, the arguments and the loader: the loader is one of two loaded   *)
(* states and every step evaluates one select expression.                  *)
(***************************************************************************)
LoadedBundles == addResource(addResource(EmptyMap, "en", ResourceA), "fr", ResourceB)

SelectInit ==
    /\ bundles \in {EmptyMap, LoadedBundles}
    /\ formatter = None
    /\ last = Idle
    /\ STATIC_LOADER = None

SelectNext ==
    \/ \E locid \in Locales, selector \in Selectors, keys \in KeyLists, args \in ArgSets :
          \E default \in 1..Len(keys) : Select(locid, selector, keys, default, args)
    \/ Return

SelectSpec == SelectInit /\ [][SelectNext]_vars


(***************************************************************************)
(* Select expressions over integer arguments, values that do not fit 32    *)
(* bits included: the selector is the variable n.                          *)
(***************************************************************************)
LongArgs ==
    { << "n" >> :> LongVar(0, 1),      \* 1
      << "n" >> :> LongVar(0, 2),      \* 2
      << "n" >> :> LongVar(0, -1),     \* -1
      << "n" >> :> LongVar(1, 0),      \* 2^32
      << "n" >> :> LongVar(1, 1),      \* 2^32 + 1
      << "n" >> :> LongVar(1, 2) }     \* 2^32 + 2

LongSelectNext ==
    \/ \E locid \in Locales, keys \in KeyLists, args \in LongArgs :
          \E default \in 1..Len(keys) :
              Select(locid, VariableReference(<< "n" >>), keys, default, args)
    \/ Return

LongSelectSpec == SelectInit /\ [][LongSelectNext]_vars


(***************************************************************************)
(* The normalizer on its own: addPattern applied to the raw patterns the   *)
(* grammar produces.  An inline_text holds no newline; a block_text is the *)
(* line break, the indent and the text of a continuation line.  An         *)
(* inline_text follows a placeable or starts the pattern, where the blank  *)
(* after the '=' has been skipped.                                         *)
(***************************************************************************)
MaxElements == 3

InlineTexts == { << "A" >>, << "A", SP >>, << SP, "B" >>, << SP >> }
BlockTexts ==
    { << NL, SP, SP, "B" >>,
      << NL, SP, SP, SP, SP, "Z" >>,
      << CR, NL, SP, SP, "B" >>,
      << NL, NL, SP, SP, SP, "Z", SP >> }

\* { $n ->
\*    *[other] A
\*       B
\* }
MultilineSelect ==
    SelectExpression(VariableReference(<< "n" >>), << >>,
        Variant(IdentifierKey(<< "o", "t", "h", "e", "r" >>),
                << Text(<< "A" >>), Text(<< NL, SP, SP, SP, SP, SP, SP, "B" >>) >>),
        << >>)

Placeables == { NumberLiteral(<< "1" >>), MultilineSelect }

RawElements ==
    {Text(t) : t \in InlineTexts \cup BlockTexts} \cup Placeables

GrammarPatterns ==
    UNION { {p \in [1..len -> RawElements] :
                \A i \in 1..len :
                    (IsText(p[i]) /\ p[i].value \in InlineTexts) =>
                        IF i = 1 THEN Head(p[i].value) # SP
                        ELSE ~IsText(p[i - 1])} : len \in 1..MaxElements }

\* indentation =
\*     Foo
\*         Bar
IndentationPattern ==
    << Text(<< NL, SP, SP, SP, SP, "F", "o", "o" >>),
       Text(<< NL, SP, SP, SP, SP, SP, SP, SP, SP, "B", "a", "r" >>) >>

\* greeting = Hello, { -brand.formal }.
GreetingPattern ==
    << Text(<< "H", "e", "l", "l", "o", ",", SP >>),
       TermReference(<< "b", "r", "a", "n", "d" >>, Some(<< "f", "o", "r", "m", "a", "l" >>)),
       Text(<< "." >>) >>

\* Patterns that refer to the entries of ResourceTerms, to the variable $n
\* and to entries no resource defines
ReferencePatterns ==
    { GreetingPattern,
      << TermReference(<< "v" >>, None) >>,
      << TermReference(<< "v" >>, Some(<< "f" >>)) >>,
      << TermReference(<< "w" >>, None) >>,
      << MessageReference(<< "u" >>, None) >>,
      << Text(<< "A" >>), VariableReference(<< "n" >>) >>,
      << MessageReference(<< "x" >>, None), Text(<< "B" >>) >>,
      << TermReference(<< "x" >>, Some(<< "f" >>)), NumberLiteral(<< "1" >>) >>,
      << TermReference(<< "d" >>, Some(<< "f" >>)) >>,
      << MessageReference(<< "m" >>, None) >>,
      << Text(<< "A" >>), TermReference(<< "r" >>, None) >>,
      << TermReference(<< "w" >>, Some(<< "f" >>)) >>,
      << Text(<< "A" >>), MessageReference(<< "u" >>, Some(<< "f" >>)) >> }

RawPatterns == GrammarPatterns \cup {IndentationPattern} \cup ReferencePatterns

\* -brand = Acme
\*     .formal = Acme Ltd.
\* -v = { $n }
\*     .f = { $n }
\* -w = { u }
\* u = { $n }
\* -d = D
\*     .f = T
\*     .f = U
\* -r = { m }
ResourceTerms ==
    << TermEntry(Term(<< "b", "r", "a", "n", "d" >>,
            << Text(<< "A", "c", "m", "e" >>) >>,
            << Attribute(<< "f", "o", "r", "m", "a", "l" >>,
                  << Text(<< "A", "c", "m", "e", SP, "L", "t", "d", "." >>) >>) >>)),
       TermEntry(Term(<< "v" >>, << VariableReference(<< "n" >>) >>,
            << Attribute(<< "f" >>, << VariableReference(<< "n" >>) >>) >>)),
       TermEntry(Term(<< "w" >>, << MessageReference(<< "u" >>, None) >>, << >>)),
       MessageEntry(Message(<< "u" >>, << VariableReference(<< "n" >>) >>, << >>)),
       TermEntry(Term(<< "d" >>, << Text(<< "D" >>) >>,
            << Attribute(<< "f" >>, << Text(<< "T" >>) >>),
               Attribute(<< "f" >>, << Text(<< "U" >>) >>) >>)),
       TermEntry(Term(<< "r" >>, << MessageReference(<< "m" >>, None) >>, << >>)) >>

PatternArgs ==
    { NoArgs,
      << "n" >> :> LongVar(0, 1),
      << "n" >> :> LongVar(0, 2),
      << "k" >> :> StringVar(<< "a" >>),
      (<< "n" >> :> LongVar(0, 1)) @@ (<< "k" >> :> StringVar(<< "a" >>)) }

\* The loader whose en bundle holds ResourceTerms and the message m built
\* from newPattern
PatternLoader(newPattern) ==
    addMessageParsed(addResource(EmptyMap, "en", ResourceTerms),
        "en", << "m" >>, [ok |-> TRUE, value |-> newPattern]).bundles

PatternChain == << "en-GB", "en" >>

\* formatMessage([en-GB, en], "m", args) on that loader
formatStored(newPattern, args) ==
    formatMessage(PatternLoader(newPattern), PatternChain, << "m" >>, args, None, "ok")

\* addPattern(newPattern, existingPattern) on an empty existingPattern, as
\* the constructors of Message, Term and Attribute call it
AddPattern(newPattern) ==
    /\ last = Idle
    /\ last' = [op |-> "addPattern", newPattern |-> newPattern,
                pattern |-> addPattern(newPattern, << >>)]
    /\ UNCHANGED << bundles, formatter, STATIC_LOADER >>

\* formatMessage under [en-GB, en] of the message m that holds the pattern,
\* in a loader whose en bundle holds ResourceTerms
FormatPattern(args) ==
    /\ last.op = "addPattern"
    /\ \E r \in {formatStored(last.newPattern, args)} :
          \E result \in (IF r.kind = "ub"
                         THEN {[r EXCEPT !.kind = "crash"],
                               [r EXCEPT !.kind = "ok"],
                               [r EXCEPT !.kind = "ok", !.str = << "?" >>]}
                         ELSE {r}) :
              last' = [op |-> "formatPattern", newPattern |-> last.newPattern,
                       pattern |-> last.pattern, args |-> args, result |-> result]
    /\ UNCHANGED << bundles, formatter, STATIC_LOADER >>

PatternNext ==
    \/ \E newPattern \in RawPatterns : AddPattern(newPattern)
    \/ \E args \in PatternArgs : FormatPattern(args)
    \/ Return

PatternSpec == Init /\ [][PatternNext]_vars

(***************************************************************************)
(* The static registry (src/src/loader.cpp 179-194): STATIC_LOADER points  *)
(* to no loader, or to the one loader addStaticResource has created; its   *)
(* value here is the bundles of that loader.                               *)
(***************************************************************************)
\* An addStaticResource that makes a new loader at every call
addStaticResource_FreshLoader(loader, locId, entries) ==
    Some(addResource(EmptyMap, locId, entries))

\* addStaticResource(locId, resource): the loader is created when
\* STATIC_LOADER is nullptr, then the resource is added to it
addStaticResource(loader, locId, entries) ==
    Some(addResource(IF loader = None THEN EmptyMap ELSE loader[1], locId, entries))

\* formatStaticMessage(locIdFallback, resId, args)
formatStaticMessage(loader, locIdFallback, resId, args, fmt, status) ==
    IF loader = None
    THEN [kind |-> "absent", str |-> << >>, lit |-> FALSE, locale |-> None]
    ELSE formatMessage(loader[1], locIdFallback, resId, args, fmt, status)

AddStaticResource(locId, entries) ==
    /\ last = Idle
    /\ STATIC_LOADER' = addStaticResource(STATIC_LOADER, locId, entries)
    /\ last' = [op |-> "addStaticResource", locId |-> locId, entries |-> entries,
                before |-> STATIC_LOADER]
    /\ UNCHANGED << bundles, formatter >>

FormatStaticMessage(locIdFallback, resId, args, status) ==
    /\ last = Idle
    /\ \E r \in {formatStaticMessage(STATIC_LOADER, locIdFallback, resId, args,
                                     formatter, status)} :
          /\ \E result \in (IF r.kind = "ub"
                            THEN {[r EXCEPT !.kind = "crash"],
                                  [r EXCEPT !.kind = "ok"],
                                  [r EXCEPT !.kind = "ok", !.str = << "?" >>]}
                            ELSE {r}) :
                last' = [op |-> "formatStaticMessage", locIdFallback |-> locIdFallback,
                         resId |-> resId, args |-> args, status |-> status,
                         formatter |-> formatter, result |-> result]
          /\ formatter' = IF r.lit /\ formatter = None THEN r.locale ELSE formatter
    /\ UNCHANGED << bundles, STATIC_LOADER >>

StaticNext ==
    \/ \E locId \in Locales, entries \in Resources : AddStaticResource(locId, entries)
    \/ \E locIdFallback \in Chains, resId \in ResIds, args \in ArgSets,
          status \in Statuses :
              FormatStaticMessage(locIdFallback, resId, args, status)
    \/ Return

StaticSpec == Init /\ [][StaticNext]_vars

(***************************************************************************)
(* The resource parser (src/src/parser.cpp, grammar::Resource), on inputs  *)
(* that hold no '{', '}', '.', '\r' and no "###": the values of messages   *)
(* and terms are texts, on one line or continued on indented lines.  A     *)
(* failed rule leaves the reader where it failed; dsl::try_ starts the     *)
(* recovery rule there.  Every entry carries the positions it spans.       *)
(***************************************************************************)
\* junk_line, dsl::until(dsl::eol): the position after the next line feed,
\* or the end of the input
junkLine(input, pos) ==
    LET hits == {i \in pos..Len(input) : input[i] = NL}
    IN  IF hits = {} THEN Len(input) + 1
        ELSE (CHOOSE i \in hits : \A j \in hits : i <= j) + 1

\* blank_block, also as the whitespace of Resource: the lines that hold
\* only spaces are skipped
RECURSIVE grammarBlankBlock(_, _)
grammarBlankBlock(input, pos) ==
    IF At(input, SkipWhile(input, pos, {SP})) = NL
    THEN grammarBlankBlock(input, SkipWhile(input, pos, {SP}) + 1)
    ELSE pos

\* The while_ loop of grammar::Junk: lines are taken until one begins with
\* '#', '-' or a letter, or the input ends
RECURSIVE junkLines(_, _)
junkLines(input, pos) ==
    IF At(input, pos) \in {"#", "-", "EOF"} \cup Alpha THEN pos
    ELSE junkLines(input, junkLine(input, pos))

\* A Junk that takes the current line only
grammarJunk_CurrentLine(input, pos) ==
    [type |-> "Junk", value |-> SubSeq(input, pos, junkLine(input, pos) - 1),
     comment |-> None, begin |-> pos, end |-> junkLine(input, pos)]

\* grammar::Junk: capture(junk_line + while_(peek_not(...) >> junk_line))
grammarJunk(input, pos) ==
    [type |-> "Junk",
     value |-> SubSeq(input, pos, junkLines(input, junkLine(input, pos)) - 1),
     comment |-> None,
     begin |-> pos, end |-> junkLines(input, junkLine(input, pos))]

\* The peek of MessageCommentLine (level 1) and GroupCommentLine (level 2):
\* the '#'s followed by a space or the end of the line
commentLineMatches(input, pos, level) ==
    /\ \A i \in 0..(level - 1) : At(input, pos + i) = "#"
    /\ At(input, pos + level) \in {SP, NL, "EOF"}

\* dsl::list of comment lines: each line gives its contents after "# ", or
\* the empty string
RECURSIVE grammarCommentLines(_, _, _, _)
grammarCommentLines(input, pos, level, acc) ==
    IF commentLineMatches(input, pos, level)
    THEN grammarCommentLines(input, junkLine(input, pos + level), level,
            acc \o << IF At(input, pos + level) = SP
                      THEN SubSeq(input, pos + level + 1,
                                  IF At(input, junkLine(input, pos + level) - 1) = NL
                                  THEN junkLine(input, pos + level) - 2
                                  ELSE junkLine(input, pos + level) - 1)
                      ELSE << >> >>)
    ELSE [lines |-> acc, pos |-> pos]

\* grammar::Pattern on these inputs: block_text and inline_text elements
RECURSIVE grammarTextPattern(_, _, _)
grammarTextPattern(input, pos, acc) ==
    IF /\ grammarBlankBlock(input, pos) > pos
       /\ At(input, grammarBlankBlock(input, pos)) = SP
       /\ IsTextChar(At(input, SkipWhile(input, grammarBlankBlock(input, pos), {SP})))
       /\ At(input, SkipWhile(input, grammarBlankBlock(input, pos), {SP}))
             \notin {"[", "*", ".", "EOF"}
    THEN \* block_text: the blank lines and the indent, then the text
         grammarTextPattern(input,
            SkipText(input, SkipWhile(input, grammarBlankBlock(input, pos), {SP})),
            acc \o << Text(SubSeq(input, pos,
                        SkipText(input, SkipWhile(input, grammarBlankBlock(input, pos),
                                                  {SP})) - 1)) >>)
    ELSE IF pos <= Len(input) /\ IsTextChar(input[pos])
    THEN \* inline_text
         grammarTextPattern(input, SkipText(input, pos),
            acc \o << Text(SubSeq(input, pos, SkipText(input, pos) - 1)) >>)
    ELSE [elements |-> acc, pos |-> pos]

\* The end of grammar::Message and grammar::Term after the identifier:
\* '=' + Pattern + Attributes + newline, spaces skipped between them
entryTail(input, type, begin, id, eq, pattern) ==
    IF At(input, eq) # "=" THEN [ok |-> FALSE, pos |-> eq]
    ELSE IF pattern.elements = << >>
    THEN [ok |-> FALSE, pos |-> pattern.pos]
    ELSE IF At(input, SkipWhile(input, pattern.pos, {SP})) # NL
    THEN [ok |-> FALSE, pos |-> SkipWhile(input, pattern.pos, {SP})]
    ELSE [ok |-> TRUE,
          entry |-> [type |-> type, value |-> Message(id, pattern.elements, << >>),
                     comment |-> None, begin |-> begin,
                     end |-> SkipWhile(input, pattern.pos, {SP}) + 1]]

\* grammar::Term ('-' >> Identifier ...) and grammar::Message
\* (Identifier >> ...), the entry beginning at pos
grammarMessage(input, pos, type, id) ==
    IF ~id.ok THEN [ok |-> FALSE, pos |-> IF type = "Term" THEN pos + 1 ELSE pos]
    ELSE entryTail(input, type, pos, id.value, SkipWhile(input, id.pos, {SP}),
            grammarTextPattern(input,
                SkipWhile(input, SkipWhile(input, id.pos, {SP}) + 1, {SP}), << >>))

\* dsl::p<Term> | dsl::p<Message>, with no entry when neither branch is taken
grammarTermOrMessage(input, pos) ==
    IF At(input, pos) = "-"
    THEN grammarMessage(input, pos, "Term", grammarIdentifier(input, pos + 1))
    ELSE IF At(input, pos) \in AlphaUnderscore
    THEN grammarMessage(input, pos, "Message", grammarIdentifier(input, pos))
    ELSE [ok |-> FALSE, pos |-> pos, none |-> TRUE]

\* commented_entry: MessageComment + if_(entry), the callback setting the
\* comment of the entry; the comment alone when no entry follows
commentedEntry(begin, comment, entry) ==
    IF entry.ok
    THEN [ok |-> TRUE,
          entry |-> [entry.entry EXCEPT !.comment = Some(comment.lines),
                                        !.begin = begin]]
    ELSE IF "none" \in DOMAIN entry
    THEN [ok |-> TRUE,
          entry |-> [type |-> "Comment", value |-> comment.lines, comment |-> None,
                     begin |-> begin, end |-> comment.pos]]
    ELSE [ok |-> FALSE, pos |-> entry.pos]

commentEntry(type, begin, comment) ==
    [ok |-> TRUE,
     entry |-> [type |-> type, value |-> comment.lines, comment |-> None,
                begin |-> begin, end |-> comment.pos]]

\* grammar::Entry: commented_entry | comment | entry, commented_entry taken
\* when the peek sees "# "
grammarEntry(input, pos) ==
    IF At(input, pos) = "#" /\ At(input, pos + 1) = SP
    THEN commentedEntry(pos, grammarCommentLines(input, pos, 1, << >>),
            grammarTermOrMessage(input, grammarCommentLines(input, pos, 1, << >>).pos))
    ELSE IF commentLineMatches(input, pos, 2)
    THEN commentEntry("GroupComment", pos, grammarCommentLines(input, pos, 2, << >>))
    ELSE IF commentLineMatches(input, pos, 1)
    THEN commentEntry("Comment", pos, grammarCommentLines(input, pos, 1, << >>))
    ELSE grammarTermOrMessage(input, pos)

\* dsl::try_(dsl::p<Entry>, dsl::p<Junk>)
tryEntry(input, e) == IF e.ok THEN e.entry ELSE grammarJunk(input, e.pos)

\* grammar::Resource: terminator(eof).opt_list(ws + try_(Entry, Junk) + ws)
RECURSIVE grammarResource(_, _, _)
resourceItem(input, acc, item) ==
    grammarResource(input, grammarBlankBlock(input, item.end), acc \o << item >>)

grammarResource(input, pos, acc) ==
    IF pos > Len(input) THEN acc
    ELSE resourceItem(input, acc,
            tryEntry(input, grammarEntry(input, grammarBlankBlock(input, pos))))

\* parse(input, strict = false): the entries, junk included
parse(input) == grammarResource(input, 1, << >>)

\* Resources of up to MaxLines lines, every line ended by a line feed
MaxLines == 3

ResourceLines ==
    { << "a", "=", "A" >>,          \* a message
      << "-", "t", "=", "T" >>,     \* a term
      << "#", SP, "x" >>,           \* a comment line
      << "#" >>,                    \* a comment line that is '#' alone
      << "#", "#", SP, "g" >>,      \* a group comment line
      << >>,                        \* a blank line
      << "=", "x" >>,               \* a line no entry can begin with
      << SP, "x" >>,                \* an indented line
      << "b" >> }                   \* an identifier without '='

RECURSIVE JoinResource(_)
JoinResource(lines) ==
    IF lines = << >> THEN << >>
    ELSE Head(lines) \o << NL >> \o JoinResource(Tail(lines))

ResourceTexts ==
    UNION { {JoinResource(lines) : lines \in [1..n -> ResourceLines]} : n \in 1..MaxLines }

Parse(input) ==
    /\ last = Idle
    /\ last' = [op |-> "parse", input |-> input, entries |-> parse(input)]
    /\ UNCHANGED << bundles, formatter, STATIC_LOADER >>

ResourceNext ==
    \/ \E input \in ResourceTexts : Parse(input)
    \/ Return

ResourceSpec == Init /\ [][ResourceNext]_vars

(***************************************************************************)
(* Properties of the loader.                                               *)
(***************************************************************************)
Names == { << "a" >>, << "b" >>, << "g" >>, << "m" >>, << "x" >> }
AttributeNames == { << "t" >>, << "x" >> }

Defines(bs, locId, id) == locId \in DOMAIN bs /\ id \in DOMAIN bs[locId].messages

\* The position in chain of the first locale that defines id, 0 when none does
FirstDefining(bs, chain, id) ==
    LET hits == {i \in 1..Len(chain) : Defines(bs, chain[i], id)}
    IN  IF hits = {} THEN 0 ELSE CHOOSE i \in hits : \A j \in hits : i <= j

Absent == [kind |-> "absent", str |-> << >>, lit |-> FALSE, locale |-> None]

\* The rendering of a pattern found in locale locId, in the setting of the
\* call recorded in last
RenderingOf(pattern, locId) ==
    LET ctx == [bundles |-> bundles, chain |-> last.locIdFallback, locid |-> locId,
                formatter |-> IF last.formatter = None THEN locId ELSE last.formatter[1],
                status |-> last.status]
        r == formatPattern(ctx, pattern, last.args, MaxDepth)
    IN  [kind |-> r.kind, str |-> r.str, lit |-> r.lit, locale |-> Some(locId)]

\* What locale locId's definition of the reference ref renders to
DefinitionRendering(locId, ref) ==
    LET message == bundles[locId].messages[ref.identifier]
    IN  IF ref.attribute = None THEN RenderingOf(message.pattern, locId)
        ELSE IF ref.attribute[1] \in DOMAIN message.attributes
        THEN RenderingOf(message.attributes[ref.attribute[1]].pattern, locId)
        ELSE Absent

\* C1: for a fallback chain, format_message returns the rendering from the
\* first locale of the chain that defines the id, whether or not a later
\* locale defines it too, and the rendering from a later locale only when no
\* earlier one defines it.
C1_FirstDefiningLocaleWins ==
    (last.op = "formatMessage" /\ parseMessageReference(last.resId).ok) =>
        LET ref == parseMessageReference(last.resId)
            i == FirstDefining(bundles, last.locIdFallback, ref.identifier)
        IN  /\ i = 0 => last.result = Absent
            /\ i # 0 =>
                 LET expected == DefinitionRendering(last.locIdFallback[i], ref)
                 IN  expected.kind # "ub" => last.result = expected

\* Both locales of a chain of two define the id, differently, and the call
\* has returned the first one's rendering
C1_Witness ==
    /\ last.op = "formatMessage"
    /\ Len(last.locIdFallback) = 2
    /\ last.resId \in Names
    /\ Defines(bundles, last.locIdFallback[1], last.resId)
    /\ Defines(bundles, last.locIdFallback[2], last.resId)
    /\ bundles[last.locIdFallback[1]].messages[last.resId]
         # bundles[last.locIdFallback[2]].messages[last.resId]
    /\ last.result.kind = "ok"
    /\ last.result.locale = Some(last.locIdFallback[1])
    /\ last.result.str
         # DefinitionRendering(last.locIdFallback[2],
                               parseMessageReference(last.resId)).str

\* C2: a second add_resource for a locale replaces the locale's bundle: the
\* bundle then holds the messages and terms of the second resource, and
\* only those.
C2_SecondResourceReplaces ==
    (/\ last.op = "addResource"
     /\ last.locId \in DOMAIN last.before
     /\ \E first \in Resources :
           last.before[last.locId] = bundleOfEntries(first, EmptyBundle)) =>
        LET second == bundleOfEntries(last.entries, EmptyBundle)
        IN  \A id \in Names :
               /\ bundleGetMessage(bundles[last.locId], id) = bundleGetMessage(second, id)
               /\ bundleGetTerm(bundles[last.locId], id) = bundleGetTerm(second, id)

\* C3: after add_directory, every message of every .ftl file of the
\* directory can be formatted through the locale named by the file's parent
\* directory.
C3_DirectoryMessagesLoaded ==
    last.op = "addDirectory" =>
        \A i \in 1..Len(last.dir) :
            LET file == last.dir[i]
            IN  (file.regular /\ file.extension = ".ftl") =>
                  \A j \in 1..Len(file.entries) :
                     file.entries[j].type = "Message" =>
                        \A args \in ArgSets :
                           formatMessage(bundles, << file.parent >>,
                                         file.entries[j].value.id, args,
                                         formatter, "ok").kind # "absent"

\* C4 as stated: format_message reports absence whenever no locale of the
\* chain defines the requested id, the empty chain included.
C4_AbsentWheneverUndefined ==
    (/\ last.op = "formatMessage"
     /\ \A i \in 1..Len(last.locIdFallback) :
           ~Defines(bundles, last.locIdFallback[i], last.resId)) =>
        last.result.kind = "absent"

\* C4: format_message reports absence whenever the requested id reads as a
\* message reference and no locale of the chain defines its message, the
\* empty chain included; a requested id that does not begin with an
\* identifier makes format_message raise the parse failure instead.
C4_AbsentOrParseFailure ==
    last.op = "formatMessage" =>
        LET ref == parseMessageReference(last.resId)
        IN  /\ ~ref.ok => last.result.kind = "throw"
            /\ (/\ ref.ok
                /\ \A i \in 1..Len(last.locIdFallback) :
                      ~Defines(bundles, last.locIdFallback[i], ref.identifier)) =>
                  last.result = Absent

\* A message that another locale of the loader defines is asked for through
\* a chain none of whose locales defines it, and the call reports absence
C4_Witness ==
    /\ last.op = "formatMessage"
    /\ last.locIdFallback # << >>
    /\ last.resId \in Names
    /\ \A i \in 1..Len(last.locIdFallback) :
          ~Defines(bundles, last.locIdFallback[i], last.resId)
    /\ \E l \in DOMAIN bundles : Defines(bundles, l, last.resId)
    /\ last.result.kind = "absent"

\* C5: the number literals of a message are formatted for the locale the
\* message was found in, whatever format_message calls came before.
C5_NumbersInFoundLocale ==
    (/\ last.op = "formatMessage"
     /\ last.status = "ok"
     /\ last.result.kind = "ok") =>
        last.result.str = formatMessage(bundles, last.locIdFallback, last.resId,
                                        last.args, last.result.locale, "ok").str

\* C6: add_message with parseable text makes the id formattable under the
\* locale: a locale without a bundle gets one holding only that message, a
\* locale with a bundle gets the message added to it, and every other
\* message and every term of that bundle, and the bundle of every other
\* locale, is unchanged.
C6_AddMessageFrame ==
    (last.op = "addMessage" /\ parsePattern(last.messageContents).ok) =>
        LET L == last.locId
            id == last.identifier
            before == last.before
        IN  /\ ~last.threw
            /\ Defines(bundles, L, id)
            /\ \A args \in ArgSets :
                  formatMessage(bundles, << L >>, id, args, formatter, "ok").kind
                      # "absent"
            /\ L \notin DOMAIN before =>
                  /\ DOMAIN bundles[L].messages = {id}
                  /\ DOMAIN bundles[L].terms = {}
                  /\ bundles[L].messages[id]
                       = Message(id, parsePattern(last.messageContents).value, << >>)
            /\ L \in DOMAIN before =>
                  /\ DOMAIN bundles[L].messages = DOMAIN before[L].messages \cup {id}
                  /\ \A other \in DOMAIN before[L].messages \ {id} :
                        bundles[L].messages[other] = before[L].messages[other]
                  /\ bundles[L].terms = before[L].terms
            /\ DOMAIN bundles = DOMAIN before \cup {L}
            /\ \A other \in DOMAIN before \ {L} : bundles[other] = before[other]

\* A message is added to a locale whose bundle already holds other messages
\* and a term, next to the bundle of another locale
C6_Witness ==
    /\ last.op = "addMessage"
    /\ ~last.threw
    /\ last.locId \in DOMAIN last.before
    /\ DOMAIN last.before[last.locId].messages \ {last.identifier} # {}
    /\ DOMAIN last.before[last.locId].terms # {}
    /\ last.identifier \notin DOMAIN last.before[last.locId].messages
    /\ DOMAIN last.before \ {last.locId} # {}
    /\ Defines(bundles, last.locId, last.identifier)

\* C7: add_message raises when the pattern text does not parse, and then
\* the bundle map is exactly as it was: no bundle created, no message added
\* or changed.
C7_ParseFailureLeavesLoader ==
    (last.op = "addMessage" /\ ~parsePattern(last.messageContents).ok) =>
        /\ last.threw
        /\ bundles = last.before

\* The text "{" is refused for a locale that has no bundle, and the locale
\* still has none
C7_Witness ==
    /\ last.op = "addMessage"
    /\ last.messageContents = << "{" >>
    /\ last.threw
    /\ last.locId \notin DOMAIN bundles

\* C8: format_message with the id "name" renders the main pattern of
\* message name, and with the id "name.attr" renders the pattern of
\* attribute attr of that message, the message being the one the fallback
\* chain resolves name to.
C8_MainPatternOrAttribute ==
    last.op = "formatMessage" =>
        \A name \in Names :
            LET i == FirstDefining(bundles, last.locIdFallback, name)
                locId == last.locIdFallback[i]
                message == bundles[locId].messages[name]
            IN  i # 0 =>
                  /\ last.resId = name =>
                        LET expected == RenderingOf(message.pattern, locId)
                        IN  expected.kind # "ub" => last.result = expected
                  /\ \A attr \in AttributeNames :
                        (/\ last.resId = name \o << "." >> \o attr
                         /\ attr \in DOMAIN message.attributes) =>
                           LET expected ==
                                   RenderingOf(message.attributes[attr].pattern, locId)
                           IN  expected.kind # "ub" => last.result = expected

\* The id "m.t" has been rendered from the attribute's pattern, which reads
\* differently from the main pattern of m
C8_Witness ==
    /\ last.op = "formatMessage"
    /\ last.resId = << "m", ".", "t" >>
    /\ last.result.kind = "ok"
    /\ LET i == FirstDefining(bundles, last.locIdFallback, << "m" >>)
           locId == last.locIdFallback[i]
           message == bundles[locId].messages[<< "m" >>]
       IN  /\ i # 0
           /\ last.result = RenderingOf(message.attributes[<< "t" >>].pattern, locId)
           /\ last.result.str # RenderingOf(message.pattern, locId).str

(***************************************************************************)
(* Properties of select expressions, stated of the select calls of         *)
(* SelectSpec.                                                             *)
(***************************************************************************)
\* The value of the selector of the select call in last: a string or a
\* number in hundredths; a reference has the string its entity renders to
SelectorValue ==
    LET selector == last.expr.selector[1]
        ctx == [bundles |-> bundles, chain |-> << last.locid >>, locid |-> last.locid,
                formatter |-> last.locid, status |-> "ok"]
        none == [has |-> FALSE, isString |-> FALSE, str |-> << >>, number |-> 0]
        string(str) == [has |-> TRUE, isString |-> TRUE, str |-> str, number |-> 0]
        number(n) == [has |-> TRUE, isString |-> FALSE, str |-> << >>, number |-> n]
        variable(v) == IF v.type = "string" THEN string(v.str)
                       ELSE IF v.type = "long" THEN number(100 * v.num)
                       ELSE number(v.num)
    IN  CASE selector.type = "StringLiteral" -> string(selector.value)
          [] selector.type = "NumberLiteral" -> number(stod(selector.value))
          [] selector.type = "VariableReference" ->
                IF selector.identifier \in DOMAIN last.args
                THEN variable(last.args[selector.identifier]) ELSE none
          [] selector.type = "MessageReference" ->
                IF messageLookup(bundles, << last.locid >>, selector.identifier) # None
                THEN string(formatElement(ctx, selector, last.args, MaxDepth).str)
                ELSE none
          [] selector.type = "TermReference" ->
                IF termLookup(bundles, << last.locid >>, selector.identifier) # None
                THEN string(formatElement(ctx, selector, last.args, MaxDepth).str)
                ELSE none

\* Whether a variant key matches a selector value under a locale
KeyMatches(locid, key, v) ==
    IF v.isString THEN key.type = "Identifier" /\ key.value = v.str
    ELSE IF key.type = "NumberLiteral" THEN stod(key.value) = v.number
    ELSE icuPluralSelect(locid, v.number) = key.value

\* The rendering of the variant at position i of the select call in last
VariantRendering(i) == << DigitChar(i) >>

\* C9: a select expression whose selector value matches no variant key
\* renders its default variant, for every kind of selector the grammar
\* accepts, a message or a term reference included.
C9_DefaultWhenNoMatch ==
    (/\ last.op = "select"
     /\ SelectorValue.has
     /\ \A i \in 1..Len(last.expr.variants) :
           ~KeyMatches(last.locid, last.expr.variants[i].key, SelectorValue)) =>
        /\ last.result.kind = "ok"
        /\ last.result.str = VariantRendering(last.expr.defaultVariant)

\* C10 as stated: for a numeric selector, a variant whose number-literal key
\* equals the selector is chosen, even when a variant whose identifier key
\* is the selector's plural category stands before it.
C10_NumberKeysFirst ==
    (/\ last.op = "select"
     /\ SelectorValue.has
     /\ ~SelectorValue.isString) =>
        LET equal == {i \in 1..Len(last.expr.variants) :
                        /\ last.expr.variants[i].key.type = "NumberLiteral"
                        /\ stod(last.expr.variants[i].key.value) = SelectorValue.number}
        IN  equal # {} =>
              last.result.str = VariantRendering(CHOOSE i \in equal : \A j \in equal : i <= j)

\* C10: for a numeric selector the variants are tested once, in source
\* order, a number-literal key by numeric equality and an identifier key by
\* the plural category of the selector under the locale; the first variant
\* that matches is chosen, and the default variant when none matches.
C10_FirstMatchInSourceOrder ==
    (/\ last.op = "select"
     /\ SelectorValue.has
     /\ ~SelectorValue.isString) =>
        LET hits == {i \in 1..Len(last.expr.variants) :
                       KeyMatches(last.locid, last.expr.variants[i].key, SelectorValue)}
        IN  /\ last.result.kind = "ok"
            /\ last.result.str =
                  IF hits = {} THEN VariantRendering(last.expr.defaultVariant)
                  ELSE VariantRendering(CHOOSE i \in hits : \A j \in hits : i <= j)

\* The selector 1 in en over variants where [one] stands before [1], neither
\* the default: the variant [one] has been chosen
C10_Witness ==
    /\ last.op = "select"
    /\ last.locid = "en"
    /\ SelectorValue.has /\ ~SelectorValue.isString /\ SelectorValue.number = 100
    /\ \E i, j \in 1..Len(last.expr.variants) :
          /\ i < j
          /\ last.expr.variants[i].key = IdentifierKey(<< "o", "n", "e" >>)
          /\ last.expr.variants[j].key = NumberKey(<< "1" >>)
          /\ last.expr.defaultVariant \notin {i, j}
          /\ last.result.str = VariantRendering(i)

(***************************************************************************)
(* Properties of the AST.                                                  *)
(***************************************************************************)
\* C11: a SelectExpression built from n variants before the default, the
\* default variant and m variants after it holds them in source order, its
\* defaultVariant is the position after the n first ones, which is within
\* the n + m + 1 variants, and the variant there is the one marked with *.
C11_VariantsInSourceOrder ==
    last.op = "select" =>
        LET n == Len(last.firstVariants)
            m == Len(last.lastVariants)
            variants == last.expr.variants
        IN  /\ Len(variants) = n + m + 1
            /\ \A i \in 1..n : variants[i] = last.firstVariants[i]
            /\ \A i \in 1..m : variants[n + 1 + i] = last.lastVariants[i]
            /\ last.expr.defaultVariant = n + 1
            /\ last.expr.defaultVariant <= Len(variants)
            /\ variants[last.expr.defaultVariant] = last.marked

\* A select expression with a variant before and a variant after its default
C11_Witness ==
    /\ last.op = "select"
    /\ Len(last.firstVariants) = 1
    /\ Len(last.lastVariants) = 1
    /\ last.expr.variants[2] = last.marked
    /\ last.marked # last.lastVariants[1]

(***************************************************************************)
(* Properties of the normalizer, stated of the addPattern calls of         *)
(* PatternSpec.                                                            *)
(***************************************************************************)
TextPositions(pattern) == {i \in 1..Len(pattern) : IsText(pattern[i])}
FirstText(pattern) ==
    pattern[CHOOSE i \in TextPositions(pattern) :
                \A j \in TextPositions(pattern) : i <= j].value
LastText(pattern) ==
    pattern[CHOOSE i \in TextPositions(pattern) :
                \A j \in TextPositions(pattern) : i >= j].value

NoAdjacentTexts(pattern) ==
    \A i \in 1..(Len(pattern) - 1) : ~(IsText(pattern[i]) /\ IsText(pattern[i + 1]))
BeginsWithCRLF(text) == Len(text) >= 2 /\ text[1] = CR /\ text[2] = NL
HasLeadingWhitespace(text) == text # << >> /\ text[1] \in {SP, NL, CR}
HasTrailingWhitespace(text) == text # << >> /\ text[Len(text)] \in {SP, NL, CR}

\* C12: the stored pattern has no two adjacent Text elements, no
\* Text beginning with \r\n, a first Text without leading whitespace and a
\* last Text without trailing whitespace.
C12_NormalizedShape ==
    last.op = "addPattern" =>
        /\ NoAdjacentTexts(last.pattern)
        /\ \A i \in TextPositions(last.pattern) : ~BeginsWithCRLF(last.pattern[i].value)
        /\ TextPositions(last.pattern) # {} =>
              /\ ~HasLeadingWhitespace(FirstText(last.pattern))
              /\ ~HasTrailingWhitespace(LastText(last.pattern))

\* The elements of a pattern that are not texts, in order
PlaceablesOf(pattern) == SelectSeq(pattern, LAMBDA elem : ~IsText(elem))

\* C13: the pattern of every select-expression variant is normalized as its
\* own pattern, like a message pattern: the variant holds what the
\* normalizer makes of the variant's raw pattern, with adjacent texts
\* merged into one Text.
C13_VariantPatternsNormalized ==
    last.op = "addPattern" =>
        LET raw == PlaceablesOf(last.newPattern)
            stored == PlaceablesOf(last.pattern)
        IN  /\ Len(stored) = Len(raw)
            /\ \A i \in 1..Len(stored) :
                  stored[i].type = "SelectExpression" =>
                     \A v \in 1..Len(stored[i].variants) :
                        /\ NoAdjacentTexts(stored[i].variants[v].pattern)
                        /\ stored[i].variants[v].pattern
                             = addPattern(raw[i].variants[v].pattern, << >>)

\* C14: normalization is idempotent: normalizing a stored pattern again
\* gives the same pattern, also when a text is followed by a placeable.
C14_AddPatternIdempotent ==
    last.op = "addPattern" => addPattern(last.pattern, << >>) = last.pattern

\* A raw pattern of three elements with a text in front of a placeable,
\* that normalization changes and whose stored form is a fixed point.
C14_Witness ==
    /\ last.op = "addPattern"
    /\ Len(last.newPattern) = MaxElements
    /\ \E i \in 1..(Len(last.newPattern) - 1) :
          IsText(last.newPattern[i]) /\ ~IsText(last.newPattern[i + 1])
    /\ \E i \in 1..(Len(last.pattern) - 1) :
          /\ IsText(last.pattern[i]) /\ ~IsText(last.pattern[i + 1])
          /\ NL \in {last.pattern[i].value[j] : j \in 1..Len(last.pattern[i].value)}
    /\ last.pattern # last.newPattern
    /\ addPattern(last.pattern, << >>) = last.pattern

\* The number of spaces a line begins with
RECURSIVE LeadingSpaces(_)
LeadingSpaces(line) ==
    IF line # << >> /\ Head(line) = SP THEN 1 + LeadingSpaces(Tail(line)) ELSE 0

IsBlankLine(line) == \A i \in 1..Len(line) : line[i] \in {SP, CR, NL}

\* A line without the whitespace at its two ends
RECURSIVE TrimLine(_)
TrimLine(line) ==
    IF line = << >> THEN line
    ELSE IF Head(line) \in {SP, CR, NL} THEN TrimLine(Tail(line))
    ELSE IF line[Len(line)] \in {SP, CR, NL} THEN TrimLine(SubSeq(line, 1, Len(line) - 1))
    ELSE line

\* The lines of a text: the stretches between its line feeds
RECURSIVE LinesOf(_)
LinesOf(text) ==
    IF NL \notin {text[i] : i \in 1..Len(text)} THEN << text >>
    ELSE LET pos == CHOOSE i \in 1..Len(text) :
                       text[i] = NL /\ \A j \in 1..(i - 1) : text[j] # NL
         IN  << SubSeq(text, 1, pos - 1) >> \o LinesOf(SubSeq(text, pos + 1, Len(text)))

\* The non-blank lines of the text elements of a pattern, in order
RECURSIVE NonBlankLines(_)
NonBlankLines(pattern) ==
    IF pattern = << >> THEN << >>
    ELSE (IF IsText(Head(pattern))
          THEN SelectSeq(LinesOf(Head(pattern).value), LAMBDA l : ~IsBlankLine(l))
          ELSE << >>) \o NonBlankLines(Tail(pattern))

\* The minimum count of leading spaces over the non-blank lines
CommonIndent(pattern) ==
    LET lines == NonBlankLines(pattern)
    IN  CHOOSE c \in {LeadingSpaces(lines[k]) : k \in 1..Len(lines)} :
            \A k \in 1..Len(lines) : c <= LeadingSpaces(lines[k])

IsIndentationRun ==
    last.op = "formatPattern" /\ last.newPattern = IndentationPattern

IndentationResult == << "F", "o", "o", NL, SP, SP, SP, SP, "B", "a", "r" >>

\* C15 as stated: the common indent is the minimum count of leading spaces
\* over the non-blank lines of the text elements; the stored pattern holds
\* the same non-blank lines, every one with exactly that many leading spaces
\* fewer, and 'indentation =\n    Foo\n        Bar' formats to
\* "Foo\n    Bar".
C15_CommonIndentRemoved ==
    /\ (last.op = "addPattern" /\ NonBlankLines(last.newPattern) # << >>) =>
          LET raw == NonBlankLines(last.newPattern)
              stored == NonBlankLines(last.pattern)
          IN  /\ Len(stored) = Len(raw)
              /\ \A k \in 1..Len(raw) :
                    /\ TrimLine(stored[k]) = TrimLine(raw[k])
                    /\ LeadingSpaces(stored[k])
                         = LeadingSpaces(raw[k]) - CommonIndent(last.newPattern)
    /\ IsIndentationRun =>
          last.result.kind = "ok" /\ last.result.str = IndentationResult

\* C15: the stored pattern holds the non-blank lines of the raw text
\* elements, every one with exactly the common indent removed and any extra
\* indent kept, except the first line of the first text element, which
\* keeps no leading whitespace at all; 'indentation =\n    Foo\n        Bar'
\* formats to "Foo\n    Bar".
C15_CommonIndentRemovedAfterFirstLine ==
    /\ (last.op = "addPattern" /\ NonBlankLines(last.newPattern) # << >>) =>
          LET raw == NonBlankLines(last.newPattern)
              stored == NonBlankLines(last.pattern)
              firstLineTrimmed == ~IsBlankLine(FirstText(last.pattern))
          IN  /\ Len(stored) = Len(raw)
              /\ \A k \in 1..Len(raw) :
                    /\ TrimLine(stored[k]) = TrimLine(raw[k])
                    /\ LeadingSpaces(stored[k])
                         = IF k = 1 /\ firstLineTrimmed THEN 0
                           ELSE LeadingSpaces(raw[k]) - CommonIndent(last.newPattern)
    /\ IsIndentationRun =>
          last.result.kind = "ok" /\ last.result.str = IndentationResult

\* The indentation message has been formatted: its pattern is the one Text
\* "Foo\n    Bar", four spaces removed from both lines
C15_Witness ==
    /\ IsIndentationRun
    /\ CommonIndent(last.newPattern) = 4
    /\ last.pattern = << Text(IndentationResult) >>
    /\ last.result.str = IndentationResult

\* A pattern on one line: a text, a number literal, a text
IsSingleLineRun ==
    /\ last.op = "formatPattern"
    /\ Len(last.newPattern) = 3
    /\ IsText(last.newPattern[1]) /\ last.newPattern[1].value \in InlineTexts
    /\ last.newPattern[2] = NumberLiteral(<< "1" >>)
    /\ IsText(last.newPattern[3]) /\ last.newPattern[3].value \in InlineTexts
    /\ ~HasTrailingWhitespace(last.newPattern[3].value)

\* C16: a text is rendered verbatim and normalization inserts no character
\* into it: a pattern on one line made of a text, a placeable and a text
\* formats to the first text, the placeable's rendering and the last text
\* with nothing in between, and 'greeting = Hello, { -brand.formal }.'
\* formats under [en-GB, en] to "Hello, Acme Ltd..".
C16_TextRenderedVerbatim ==
    /\ IsSingleLineRun =>
          /\ last.result.kind = "ok"
          /\ last.result.str =
                last.newPattern[1].value \o << "1" >> \o last.newPattern[3].value
    /\ (last.op = "formatPattern" /\ last.newPattern = GreetingPattern) =>
          /\ last.result.kind = "ok"
          /\ last.result.str =
                << "H", "e", "l", "l", "o", ",", SP,
                   "A", "c", "m", "e", SP, "L", "t", "d", ".", "." >>

(***************************************************************************)
(* Properties of formatting references and variables.                      *)
(***************************************************************************)
\* The identifiers ResourceTerms and the message m define
DefinedMessages == { << "m" >>, << "u" >> }
DefinedTerms ==
    { << "b", "r", "a", "n", "d" >>, << "v" >>, << "w" >>, << "d" >>, << "r" >> }

\* The pattern formatted begins with a reference no locale of the chain
\* defines, followed by one more element
IsUnknownReferenceRun ==
    /\ last.op = "formatPattern"
    /\ Len(last.newPattern) = 2
    /\ \/ /\ last.newPattern[1].type = "MessageReference"
          /\ last.newPattern[1].identifier \notin DefinedMessages
       \/ /\ last.newPattern[1].type = "TermReference"
          /\ last.newPattern[1].identifier \notin DefinedTerms

\* C17: a message or term reference whose identifier no locale of the chain
\* defines renders as "unknown message " followed by the reference, the
\* elements after it are still formatted, and formatMessage returns a
\* string.
C17_UnknownReferencePlaceholder ==
    IsUnknownReferenceRun =>
        LET ref == last.newPattern[1]
            rest == last.newPattern[2]
        IN  /\ last.result.kind = "ok"
            /\ last.result.str =
                  << "u", "n", "k", "n", "o", "w", "n", SP,
                     "m", "e", "s", "s", "a", "g", "e", SP, "{", SP >>
                  \o (IF ref.type = "TermReference" THEN << "-" >> ELSE << >>)
                  \o ref.identifier \o << SP, "}" >>
                  \o (IF IsText(rest) THEN rest.value ELSE << "1" >>)

\* The unknown message reference x followed by the text B has been
\* formatted to a string that ends with B
C17_Witness ==
    /\ IsUnknownReferenceRun
    /\ last.newPattern[1] = MessageReference(<< "x" >>, None)
    /\ last.newPattern[2] = Text(<< "B" >>)
    /\ last.result.kind = "ok"
    /\ last.result.str[Len(last.result.str)] = "B"

\* The pattern has an element that is a variable reference, or a select
\* expression whose selector is one, naming a variable args does not hold
EvaluatesMissingVariable(pattern, args) ==
    \E i \in 1..Len(pattern) :
        \/ /\ pattern[i].type = "VariableReference"
           /\ pattern[i].identifier \notin DOMAIN args
        \/ /\ pattern[i].type = "SelectExpression"
           /\ pattern[i].selector[1].type = "VariableReference"
           /\ pattern[i].selector[1].identifier \notin DOMAIN args

\* C18: formatting a pattern that evaluates a variable reference, as an
\* element or as the selector of a select expression, whose name args does
\* not hold aborts formatMessage with a failure: no string is returned.
C18_MissingVariableAborts ==
    (last.op = "formatPattern" /\ EvaluatesMissingVariable(last.pattern, last.args)) =>
        last.result.kind = "throw" /\ last.result.str = << >>

\* 'A{ $n }' has been formatted without arguments: the call failed
C18_Witness ==
    /\ last.op = "formatPattern"
    /\ last.args = NoArgs
    /\ last.newPattern = << Text(<< "A" >>), VariableReference(<< "n" >>) >>
    /\ last.result.kind = "throw"

\* The variable names formatting a pattern with the caller's arguments can
\* read: those of its variable references, of its select expressions
\* (selector and variants) and of the messages it refers to; terms are
\* formatted without the caller's arguments.
RECURSIVE VariablesOf(_, _, _)
VariablesOf(loader, pattern, depth) ==
    IF depth = 0 THEN {}
    ELSE UNION { LET elem == pattern[i]
                 IN  IF elem.type = "VariableReference" THEN {elem.identifier}
                     ELSE IF elem.type = "SelectExpression"
                     THEN VariablesOf(loader, elem.selector, depth - 1)
                          \cup UNION { VariablesOf(loader, elem.variants[v].pattern, depth - 1) :
                                          v \in 1..Len(elem.variants) }
                     ELSE IF elem.type = "MessageReference"
                     THEN UNION { VariablesOf(loader,
                                      loader[l].messages[elem.identifier].pattern,
                                      depth - 1) :
                                  l \in {l \in DOMAIN loader :
                                            elem.identifier \in DOMAIN loader[l].messages} }
                     ELSE {}
               : i \in 1..Len(pattern) }

AgreeOn(names, args1, args2) ==
    \A v \in names :
        /\ v \in DOMAIN args1 <=> v \in DOMAIN args2
        /\ v \in DOMAIN args1 => args1[v] = args2[v]

\* The call recorded in last read an empty optional, the attribute of a
\* reference to an attribute that is not there: it has no defined result
ReadsEmptyOptional ==
    /\ last.op = "formatPattern"
    /\ formatStored(last.newPattern, last.args).kind = "ub"

\* C19: arguments the message does not use are ignored: formatMessage on
\* the same loader, chain and id with another argument map, one that agrees
\* with the first on every variable name the pattern can read, gives the
\* same result, for every call whose behaviour is defined.
C19_UnusedArgumentsIgnored ==
    (last.op = "formatPattern" /\ ~ReadsEmptyOptional) =>
        \A other \in PatternArgs :
            AgreeOn(VariablesOf(PatternLoader(last.newPattern), last.pattern, MaxDepth),
                    last.args, other)
              => formatStored(last.newPattern, other) = last.result

\* 'A{ $n }' has been formatted with n = 1 and the unused argument k: the
\* result is the one of formatting it with n = 1 alone, a string
C19_Witness ==
    /\ last.op = "formatPattern"
    /\ last.newPattern = << Text(<< "A" >>), VariableReference(<< "n" >>) >>
    /\ DOMAIN last.args = { << "n" >>, << "k" >> }
    /\ last.result.kind = "ok"
    /\ formatStored(last.newPattern, << "n" >> :> LongVar(0, 1)) = last.result

\* The pattern formatted reads the caller's arguments at most inside terms:
\* its elements are texts, number literals and term references
IsTermOnlyRun ==
    /\ last.op = "formatPattern"
    /\ \A i \in 1..Len(last.newPattern) :
          last.newPattern[i].type \in {"Text", "NumberLiteral", "TermReference"}

\* The terms of ResourceTerms that read $n: in the pattern (-v), in an
\* attribute (-v.f) and in a message the term refers to (-w)
VariableTerms ==
    { TermReference(<< "v" >>, None),
      TermReference(<< "v" >>, Some(<< "f" >>)),
      TermReference(<< "w" >>, None) }

\* C20: a term reference is evaluated with an empty argument map: no
\* argument of the caller of formatMessage is visible in the term's pattern,
\* in its attribute's pattern or in what the term refers to.  The result is
\* the one of a call without arguments, and a term that reads $n fails
\* whatever value the caller gives n, for every call whose behaviour is
\* defined.
C20_TermsSeeNoArguments ==
    (IsTermOnlyRun /\ ~ReadsEmptyOptional) =>
        /\ last.result = formatStored(last.newPattern, NoArgs)
        /\ (\E i \in 1..Len(last.newPattern) : last.newPattern[i] \in VariableTerms)
              => last.result.kind = "throw"

\* The term -w, which refers to the message u = { $n }, has been formatted
\* by a caller that supplies n: the call failed for the missing variable
C20_Witness ==
    /\ IsTermOnlyRun
    /\ last.newPattern = << TermReference(<< "w" >>, None) >>
    /\ << "n" >> \in DOMAIN last.args
    /\ last.result.kind = "throw"

(***************************************************************************)
(* Properties of the namespaces of messages and terms.                     *)
(***************************************************************************)
\* The locales of the chain whose bundle holds a term id
TermLocales(chain, id) ==
    {chain[i] : i \in {j \in 1..Len(chain) :
                          chain[j] \in DOMAIN bundles /\ id \in DOMAIN bundles[chain[j]].terms}}

\* C21: messages and terms live in separate namespaces and formatMessage
\* reaches no term: asked for an id, with or without the '-' of a term, it
\* returns no string when no locale of the chain defines a message of that
\* id, also when a term of that id exists, and the string it returns when a
\* message and a term share the id is not the rendering of the term's
\* pattern.
C21_TermsNotFormattable ==
    last.op = "formatMessage" =>
        \A id \in Names :
            last.resId \in {id, << "-" >> \o id} =>
                /\ (FirstDefining(bundles, last.locIdFallback, id) = 0
                      \/ last.resId # id)
                      => last.result.kind \in {"absent", "throw"}
                /\ \A l \in TermLocales(last.locIdFallback, id) :
                      last.result.kind = "ok" =>
                          last.result.str # RenderingOf(bundles[l].terms[id].pattern, l).str

\* b has been asked of a chain whose en bundle holds the term -b and where
\* no message b exists: the call returned absence
C21_Witness ==
    /\ last.op = "formatMessage"
    /\ last.resId = << "b" >>
    /\ last.locIdFallback = << "en" >>
    /\ TermLocales(last.locIdFallback, << "b" >>) = {"en"}
    /\ FirstDefining(bundles, last.locIdFallback, << "b" >>) = 0
    /\ last.result = Absent

\* g has been asked of a chain whose first bundle holds both the message g
\* and the term -g
SharedIdFormatted ==
    /\ last.op = "formatMessage"
    /\ last.resId = << "g" >>
    /\ Len(last.locIdFallback) >= 1
    /\ Defines(bundles, last.locIdFallback[1], << "g" >>)
    /\ last.locIdFallback[1] \in TermLocales(last.locIdFallback, << "g" >>)

\* C22: when a Message or Term is built from an attribute list that holds
\* an attribute id twice, the later attribute overwrites the earlier one:
\* getAttribute returns the last attribute of that id.  The term -d is built
\* from .f = T followed by .f = U, so -d.f is U.
C22_LaterAttributeOverwrites ==
    (last.op = "formatPattern"
       /\ last.newPattern = << TermReference(<< "d" >>, Some(<< "f" >>)) >>) =>
        /\ getAttribute(PatternLoader(last.newPattern)["en"].terms[<< "d" >>], << "f" >>)
             = Some(Attribute(<< "f" >>, << Text(<< "U" >>) >>))
        /\ last.result.kind = "ok"
        /\ last.result.str = << "U" >>

(***************************************************************************)
(* Properties of the static registry.                                      *)
(***************************************************************************)
\* C23: formatStaticMessage returns absence while addStaticResource has
\* never been called; the first addStaticResource creates the loader, every
\* later call uses that loader, which is never destroyed or reset: a
\* message an earlier addStaticResource has registered is still defined
\* after every later call.
C23_StaticLoaderLifecycle ==
    /\ [](last.op = "formatStaticMessage" =>
            IF STATIC_LOADER = None THEN last.result = Absent
            ELSE last.resId \in Names =>
                    (last.result = Absent
                       <=> FirstDefining(STATIC_LOADER[1], last.locIdFallback,
                                         last.resId) = 0))
    /\ [](last.op = "addStaticResource" =>
            /\ STATIC_LOADER # None
            /\ last.locId \in DOMAIN STATIC_LOADER[1])
    /\ [][/\ STATIC_LOADER # None => STATIC_LOADER' # None
          /\ STATIC_LOADER # None =>
                \A locId \in Locales, id \in Names :
                    Defines(STATIC_LOADER[1], locId, id)
                       => /\ Defines(STATIC_LOADER'[1], locId, id)
                          /\ STATIC_LOADER'[1][locId].messages[id]
                               = STATIC_LOADER[1][locId].messages[id]]_vars

\* After addStaticResource for en with ResourceA and then for fr with
\* ResourceB, the message a of en is formatted from the static loader
C23_Witness ==
    /\ last.op = "formatStaticMessage"
    /\ STATIC_LOADER # None
    /\ DOMAIN STATIC_LOADER[1] = {"en", "fr"}
    /\ STATIC_LOADER[1]["en"] = bundleOfEntries(ResourceA, EmptyBundle)
    /\ last.locIdFallback = << "en" >>
    /\ last.resId = << "a" >>
    /\ last.result.kind = "ok"
    /\ last.result.locale = Some("en")
    /\ Head(last.result.str) = "A"

(***************************************************************************)
(* Properties of the resource parser.                                      *)
(***************************************************************************)
\* The positions at which a line of the input begins, and the end of input
LineStarts(input) ==
    {1} \cup {p \in 2..(Len(input) + 1) : input[p - 1] = NL}

\* The first line after the line of pos that begins with '#', '-' or a
\* letter, or the end of the input
JunkRegionEnd(input, pos) ==
    LET stops == {p \in LineStarts(input) :
                    \/ p = Len(input) + 1
                    \/ p > pos /\ input[p] \in {"#", "-"} \cup Alpha}
    IN  CHOOSE p \in stops : \A q \in stops : p <= q

IsParseRun == last.op = "parse"

\* C24: a Junk entry holds the input from the place the entry failed to the
\* first following line that begins with '#', '-' or a letter, or to the end
\* of the input; the entries after the junk are those read from that line on,
\* and a message, term or comment that follows begins on that line.
C24_JunkRecovery ==
    IsParseRun =>
        \A k \in 1..Len(last.entries) :
            last.entries[k].type = "Junk" =>
                /\ last.entries[k].end =
                       JunkRegionEnd(last.input, last.entries[k].begin)
                /\ last.entries[k].value =
                       SubSeq(last.input, last.entries[k].begin,
                              last.entries[k].end - 1)
                /\ IF last.entries[k].end > Len(last.input)
                   THEN k = Len(last.entries)
                   ELSE /\ k < Len(last.entries)
                        /\ SubSeq(last.entries, k + 1, Len(last.entries)) =
                               grammarResource(last.input, last.entries[k].end, << >>)
                        /\ last.entries[k + 1].type # "Junk" =>
                               last.entries[k + 1].begin = last.entries[k].end

\* A junk of two lines is followed by the message of the third line
C24_Witness ==
    /\ IsParseRun
    /\ last.input = << "=", "x", NL, SP, "x", NL, "a", "=", "A", NL >>
    /\ Len(last.entries) = 2
    /\ last.entries[1].type = "Junk"
    /\ last.entries[1].value = << "=", "x", NL, SP, "x", NL >>
    /\ last.entries[2].type = "Message"
    /\ last.entries[2].value.id = << "a" >>

\* The places where a run of '#' comment lines begins: a '#' comment line
\* whose previous line is not one
CommentRunStarts(input) ==
    {p \in LineStarts(input) :
        /\ p <= Len(input)
        /\ commentLineMatches(input, p, 1)
        /\ ~ \E q \in LineStarts(input) :
                /\ q < p
                /\ junkLine(input, q) = p
                /\ commentLineMatches(input, q, 1)}

\* The entries that begin at a position of the input
EntriesAt(entries, pos) == {k \in 1..Len(entries) : entries[k].begin = pos}

\* C25: a run of '#' comment lines, lines that are '#' alone included,
\* followed at once by a message or a term is that entry's comment and gives
\* no Comment entry; followed by a blank line, a '##' comment or the end of
\* the input it is a Comment entry, and the entry after it has no comment.
C25_CommentAttachedToEntry ==
    IsParseRun =>
        \A p \in CommentRunStarts(last.input) :
            LET run == grammarCommentLines(last.input, p, 1, << >>)
            IN  /\ grammarTermOrMessage(last.input, run.pos).ok =>
                    /\ \E k \in EntriesAt(last.entries, p) :
                          /\ last.entries[k].type \in {"Message", "Term"}
                          /\ last.entries[k].comment = Some(run.lines)
                    /\ \A k \in EntriesAt(last.entries, p) :
                          last.entries[k].type # "Comment"
                /\ ( \/ At(last.input, run.pos) \in {NL, "EOF"}
                     \/ commentLineMatches(last.input, run.pos, 2) ) =>
                    \E k \in EntriesAt(last.entries, p) :
                        /\ last.entries[k].type = "Comment"
                        /\ last.entries[k].value = run.lines
                        /\ k < Len(last.entries) =>
                               last.entries[k + 1].comment = None


(***************************************************************************)
(* Properties of select expressions over integers.                         *)
(***************************************************************************)
\* The CLDR cardinal category of the integer hi * 2^32 + lo, hi >= 0: above
\* 32 bits the value is neither 0 nor 1, and it is a multiple of 1000000
\* when hi * 967296 + lo is
PluralCategoryOfLong(locid, hi, lo) ==
    IF hi = 0 THEN icuPluralSelectInt32(locid, lo)
    ELSE IF locid = "fr" /\ (hi * 967296 + lo) % 1000000 = 0
    THEN << "m", "a", "n", "y" >>
    ELSE << "o", "t", "h", "e", "r" >>

\* A key matches the integer: a number literal equal to it, or the
\* identifier that is its plural category
KeyMatchesLong(locid, key, hi, lo) ==
    IF key.type = "NumberLiteral" THEN NumberLiteralEqLong(key, hi, lo)
    ELSE key.value = PluralCategoryOfLong(locid, hi, lo)

IsLongSelectRun ==
    /\ last.op = "select"
    /\ last.expr.selector[1].type = "VariableReference"
    /\ last.expr.selector[1].identifier \in DOMAIN last.args
    /\ last.args[last.expr.selector[1].identifier].type = "long"

\* C26: for an integer selector n the chosen variant is the first whose key
\* is a number literal equal to n or the identifier naming the plural
\* category of n itself, the default when there is none, whatever the size
\* of n: 2^32 + 1 is not taken for 1.
C26_PluralCategoryOfWholeValue ==
    IsLongSelectRun =>
        LET n == last.args[last.expr.selector[1].identifier]
            hits == {i \in 1..Len(last.expr.variants) :
                        KeyMatchesLong(last.locid, last.expr.variants[i].key, n.hi, n.num)}
        IN  /\ last.result.kind = "ok"
            /\ last.result.str =
                   VariantRendering(IF hits = {} THEN last.expr.defaultVariant
                                    ELSE CHOOSE i \in hits : \A j \in hits : i <= j)


(***************************************************************************)
(* Termination of formatting.                                              *)
(***************************************************************************)
\* The message and term references of a pattern: its own, and those of the
\* selectors and the variants of its select expressions
RECURSIVE ReferencesOf(_)
ReferencesOf(pattern) ==
    UNION { IF pattern[i].type \in {"MessageReference", "TermReference"}
            THEN {pattern[i]}
            ELSE IF pattern[i].type = "SelectExpression"
            THEN ReferencesOf(pattern[i].selector)
                 \cup UNION {ReferencesOf(pattern[i].variants[j].pattern) :
                                j \in 1..Len(pattern[i].variants)}
            ELSE {} : i \in 1..Len(pattern) }

\* The pattern a reference leads to under the chain, empty when the lookup
\* or the attribute has none
PatternOfReference(loader, chain, ref) ==
    LET entity == IF ref.type = "TermReference"
                  THEN termLookup(loader, chain, ref.identifier)
                  ELSE messageLookup(loader, chain, ref.identifier)
    IN  IF entity = None THEN << >>
        ELSE IF ref.attribute = None THEN entity[1].pattern
        ELSE IF getAttribute(entity[1], ref.attribute[1]) = None THEN << >>
        ELSE getAttribute(entity[1], ref.attribute[1])[1].pattern

\* The references reachable from a set of references
RECURSIVE ReachableFrom(_, _, _)
ReachableFrom(loader, chain, refs) ==
    LET next == refs \cup UNION {ReferencesOf(PatternOfReference(loader, chain, r)) :
                                    r \in refs}
    IN  IF next = refs THEN refs ELSE ReachableFrom(loader, chain, next)

\* Some message or term reachable from the reference is reachable from itself
IsCyclicFrom(loader, chain, ref) ==
    \E r \in ReachableFrom(loader, chain, {ref}) :
        r \in ReachableFrom(loader, chain,
                 ReferencesOf(PatternOfReference(loader, chain, r)))

StoredIsCyclic ==
    IsCyclicFrom(PatternLoader(last.newPattern), PatternChain,
                 MessageReference(<< "m" >>, None))

C27_WitnessAcyclic ==
    /\ last.op = "formatPattern"
    /\ last.newPattern = << TermReference(<< "w" >>, None) >>
    /\ ~StoredIsCyclic
    /\ last.result.kind = "throw"


(***************************************************************************)
(* The fallback of number formatting.                                      *)
(***************************************************************************)
\* A pattern of texts, number literals and variables that args defines
IsPlainPattern(pattern, args) ==
    \A i \in 1..Len(pattern) :
        \/ pattern[i].type \in {"Text", "NumberLiteral"}
        \/ pattern[i].type = "VariableReference" /\ pattern[i].identifier \in DOMAIN args

\* The raw digits of a value: the text of a string, std::to_string of a number
RawDigits(variable) ==
    IF variable.type = "string" THEN variable.str
    ELSE IF variable.type = "long" THEN to_string_long(variable.hi, variable.num)
    ELSE to_string_double(variable.num)

\* A plain pattern with every number as its raw digits
RECURSIVE RawRendering(_, _)
RawRendering(pattern, args) ==
    IF pattern = << >> THEN << >>
    ELSE (IF Head(pattern).type = "VariableReference"
          THEN RawDigits(args[Head(pattern).identifier])
          ELSE Head(pattern).value)
         \o RawRendering(Tail(pattern), args)

\* The pattern formatMessage formats for the reference, in the first locale
\* of the chain that defines the message; none when there is no such pattern
ResolvedPattern(bs, chain, ref) ==
    LET i == FirstDefining(bs, chain, ref.identifier)
        message == bs[chain[i]].messages[ref.identifier]
    IN  IF i = 0 THEN None
        ELSE IF ref.attribute = None THEN Some(message.pattern)
        ELSE IF ref.attribute[1] \in DOMAIN message.attributes
        THEN Some(message.attributes[ref.attribute[1]].pattern)
        ELSE None

\* C28: when the number formatter reports an error, a pattern of texts,
\* number literals and variables renders with every number literal as its
\* literal text, integer or decimal, and every numeric variable as its
\* language-neutral digits.
C28_RawDigitsOnFormatterError ==
    (/\ last.op = "formatMessage"
     /\ last.status = "fail"
     /\ parseMessageReference(last.resId).ok) =>
        LET found == ResolvedPattern(bundles, last.locIdFallback,
                                     parseMessageReference(last.resId))
        IN  (found # None /\ IsPlainPattern(found[1], last.args)) =>
                /\ last.result.kind = "ok"
                /\ last.result.str = RawRendering(found[1], last.args)


(***************************************************************************)
(* References to attributes.                                               *)
(***************************************************************************)
\* The pattern has a reference to an attribute that the message or the term
\* it resolves to does not have
NamesAbsentAttribute(loader, chain, pattern) ==
    \E ref \in ReferencesOf(pattern) :
        /\ ref.attribute # None
        /\ LET entity == IF ref.type = "TermReference"
                         THEN termLookup(loader, chain, ref.identifier)
                         ELSE messageLookup(loader, chain, ref.identifier)
           IN  entity # None /\ getAttribute(entity[1], ref.attribute[1]) = None

\* C29: formatting a pattern with a reference to an attribute that the
\* resolved message or term lacks reads no empty optional: the call returns
\* a string or reports a failure, and the outcome is the one the code defines.
C29_NeverReadsAbsentAttribute ==
    (/\ last.op = "formatPattern"
     /\ NamesAbsentAttribute(PatternLoader(last.newPattern), PatternChain,
                             last.newPattern)) =>
        /\ ~ReadsEmptyOptional
        /\ last.result.kind \in {"ok", "throw"}


(***************************************************************************)
(* Attributes and the fallback chain.                                      *)
(***************************************************************************)
\* The call in last asked for an attribute that the message of the first
\* defining locale of the chain does not have
AsksAbsentAttribute ==
    /\ last.op = "formatMessage"
    /\ parseMessageReference(last.resId).ok
    /\ parseMessageReference(last.resId).attribute # None
    /\ FirstDefining(bundles, last.locIdFallback,
                     parseMessageReference(last.resId).identifier) # 0
    /\ ResolvedPattern(bundles, last.locIdFallback,
                       parseMessageReference(last.resId)) = None

\* C30: formatMessage(chain, "name.attr") returns the empty optional when
\* the first locale of the chain that defines name has no attribute attr,
\* whether or not a later locale of the chain defines name with attr.
C30_AttributeNotLookedUpInChain ==
    AsksAbsentAttribute => last.result = Absent

\* m.t asked under [fr, en]: fr defines m without attributes, en defines m
\* with the attribute t, and the call returned the empty optional
C30_Witness ==
    /\ AsksAbsentAttribute
    /\ last.locIdFallback = << "fr", "en" >>
    /\ last.resId = << "m", ".", "t" >>
    /\ Defines(bundles, "en", << "m" >>)
    /\ << "t" >> \in DOMAIN bundles["en"].messages[<< "m" >>].attributes
    /\ last.result = Absent

=============================================================================
